---- MODULE Spec2Model ----
(***************************************************************************)
(* Model of the wordwise backend core: the per-profile rate-limit gate of  *)
(* backend/app/auth.py and, of backend/app/routers/suggestions.py, the     *)
(* text-span locator, the analyze pipeline and the dismissal registry.     *)
(*                                                                         *)
(* Time is counted in clock ticks.  A second is TicksPerSecond ticks, so   *)
(* that instants between two whole seconds exist (datetime has microsecond *)
(* resolution); the hour of timedelta(hours=1) is scaled to                *)
(* SecondsPerHour seconds.                                                 *)
(***************************************************************************)
EXTENDS Integers, Sequences, FiniteSets, Bags, TLC

\* ------------------------------------------------------------------ bounds
TicksPerSecond == 2
SecondsPerHour == 2
ExtraTicks == 2
NumRequests == 2
MaxAdmitted == 6
MaxTextLen == 3
MaxNeedleLen == 2
MaxPos == 2
MaxPositions == 2
MaxUsed == 2
MaxElements == 3
MaxVersions == 2

Hour == SecondsPerHour * TicksPerSecond

\* the clock stops after the first hour and ExtraTicks more ticks
MaxTime == Hour + ExtraTicks

\* the value of a NULL column / a Python None
None == 0 - 1

\* requests_per_hour values of the call sites: test_rate_limiting.py uses 5
\* and 1; 2 stands for any other budget
Limits == {1, 2, 5}

\* the one budget all deployed call sites share (300 in suggestions.py and
\* rewriter.py), scaled down
SiteLimits == {2}

Requests == 1 .. NumRequests

HTTP_429_TOO_MANY_REQUESTS == 429

VARIABLES
  now,                \* the wall clock, datetime.now(timezone.utc)
  profile_row,        \* the committed profiles row of the one profile
  pc,                 \* per request: "idle", "loaded", "committing", "done"
  current_profile,    \* per request: the Profile object loaded by the request
  requests_per_hour,  \* per request: the limit of the dependency it goes through
  pending,            \* per request: the UPDATE executed but not yet committed
  response,           \* per request: what check_rate_limit handed back
  admitted_in_window, \* history: calls admitted since the window was opened
  admit_log,          \* history of the one-at-a-time runs: times of the
                      \* calls admitted during the last hour
  limits_used,        \* history of the one-at-a-time runs: limits called with
  lpc,                \* the locator's position: "find", "found", "select", "selected"
  paragraph_text,     \* find_text_positions: the text searched
  original_text,      \* find_text_positions: the text looked for
  positions,          \* the list find_text_positions returned or
                      \* select_best_position is given
  used_positions,     \* select_best_position: the spans already taken
  selected_position,  \* what select_best_position returned
  dismissed_suggestions, \* the dismissed_suggestions table: how many rows
                      \* hold each (profile, document, identifier) triple
  hpc,                \* per request: the position of its suggestions
                      \* handler: "idle", "inserting", "counting",
                      \* "deleting", "done"
  call,               \* per request: the endpoint called and its arguments
  result,             \* per request: what the handler handed back
  dismissed_pairs,    \* history: per document, the (original_text, rule_id)
                      \* pairs its owner dismissed since the last clear
  documents,          \* the documents table: per document id the owner,
                      \* the title and the content of the row
  document_versions,  \* the document_versions table in the order the rows
                      \* were inserted; the place of a row is its id
  session             \* per request: the Document and DocumentVersion
                      \* objects its database session has loaded

gate_vars == <<now, profile_row, pc, current_profile, requests_per_hour,
               pending, response, admitted_in_window, admit_log, limits_used>>

locator_vars == <<lpc, paragraph_text, original_text, positions,
                  used_positions, selected_position>>

service_vars == <<dismissed_suggestions, hpc, call, result, dismissed_pairs>>

document_vars == <<documents, document_versions, session>>

vars == <<gate_vars, locator_vars, service_vars, document_vars>>

\* ------------------------------------------------------- the profiles row
NewProfile == [api_call_count |-> 0, rate_limit_reset_at |-> None]

NoUpdate == [cols |-> {}, api_call_count |-> None, rate_limit_reset_at |-> None]

\* ApplyUpdate writing both columns whatever the UPDATE names
ApplyUpdate_all(row, values) ==
  [api_call_count |-> values.api_call_count,
   rate_limit_reset_at |-> values.rate_limit_reset_at]

\* update(Profile).where(...).values(...): only the named columns are written
ApplyUpdate(row, values) ==
  [api_call_count |->
     IF "api_call_count" \in values.cols
       THEN values.api_call_count ELSE row.api_call_count,
   rate_limit_reset_at |->
     IF "rate_limit_reset_at" \in values.cols
       THEN values.rate_limit_reset_at ELSE row.rate_limit_reset_at]

NoResponse ==
  [outcome |-> "none", status_code |-> None, current_usage |-> None,
   limit |-> None,
   reset_in_seconds |-> None, retry_after |-> None, at |-> None,
   profile |-> NewProfile]

\* int(timedelta.total_seconds()) of a positive difference of two instants
TotalSecondsInt(ticks) == ticks \div TicksPerSecond

\* WindowExpired with the comparison made strict
WindowExpired_strict(profile, current_time) ==
  \/ profile.rate_limit_reset_at = None
  \/ current_time > profile.rate_limit_reset_at

\* auth.py:153-154, the window is unset or has run out
WindowExpired(profile, current_time) ==
  \/ profile.rate_limit_reset_at = None
  \/ current_time >= profile.rate_limit_reset_at

\* LimitExceeded off by one
LimitExceeded_gt(profile, limit) == profile.api_call_count > limit

\* auth.py:176, the loaded count has reached the limit of the call
LimitExceeded(profile, limit) == profile.api_call_count >= limit

\* ResetValues that does not count the call that opens the window
ResetValues_zero(current_time) ==
  [cols |-> {"api_call_count", "rate_limit_reset_at"},
   api_call_count |-> 0,
   rate_limit_reset_at |-> current_time + Hour]

\* auth.py:157-167, the UPDATE that opens a new window
ResetValues(current_time) ==
  [cols |-> {"api_call_count", "rate_limit_reset_at"},
   api_call_count |-> 1,
   rate_limit_reset_at |-> current_time + Hour]

\* IncrementValues that writes the count back as it was
IncrementValues_keep(profile) ==
  [cols |-> {"api_call_count"},
   api_call_count |-> profile.api_call_count,
   rate_limit_reset_at |-> None]

\* auth.py:193-197, the UPDATE that counts one more call
IncrementValues(profile) ==
  [cols |-> {"api_call_count"},
   api_call_count |-> profile.api_call_count + 1,
   rate_limit_reset_at |-> None]

\* auth.py:178, the retry delay reported on rejection
SecondsUntilReset(profile, current_time) ==
  TotalSecondsInt(profile.rate_limit_reset_at - current_time)

\* check_rate_limit up to the point where it raises or has executed its
\* UPDATE: the outcome for the loaded profile, the time read and the limit
check_rate_limit(limit, profile, current_time) ==
  IF WindowExpired(profile, current_time)
  THEN
    LET values == ResetValues(current_time) IN
    [raised |-> FALSE,
     values |-> values,
     response |-> [NoResponse EXCEPT
                     !.outcome = "returned", !.at = current_time,
                     !.profile = ApplyUpdate(profile, values)]]
  ELSE IF LimitExceeded(profile, limit)
  THEN
    LET seconds_until_reset == SecondsUntilReset(profile, current_time) IN
    [raised |-> TRUE,
     values |-> NoUpdate,
     response |-> [outcome |-> "raised",
                   status_code |-> HTTP_429_TOO_MANY_REQUESTS,
                   current_usage |-> profile.api_call_count,
                   limit |-> limit,
                   reset_in_seconds |-> seconds_until_reset,
                   retry_after |-> seconds_until_reset,
                   at |-> current_time,
                   profile |-> profile]]
  ELSE
    LET values == IncrementValues(profile) IN
    [raised |-> FALSE,
     values |-> values,
     response |-> [NoResponse EXCEPT
                     !.outcome = "returned", !.at = current_time,
                     !.profile = ApplyUpdate(profile, values)]]

\* ---------------------------------------------------------------- history
\* the admitted calls that are less than one hour old at time t
WithinHour(log, t) == SelectSeq(log, LAMBDA a : a > t - Hour)

\* the bookkeeping of a committed outcome at time t
AdmittedAfter(values) ==
  IF "rate_limit_reset_at" \in values.cols THEN 1 ELSE admitted_in_window + 1

GateAtRest ==
  /\ now = 0
  /\ profile_row = NewProfile
  /\ pc = [r \in Requests |-> "idle"]
  /\ current_profile = [r \in Requests |-> NewProfile]
  /\ requests_per_hour = [r \in Requests |-> None]
  /\ pending = [r \in Requests |-> NoUpdate]
  /\ response = [r \in Requests |-> NoResponse]
  /\ admitted_in_window = 0
  /\ admit_log = <<>>
  /\ limits_used = {}

\* select_best_position returning None
NoPosition == <<>>

\* the locator is not in use
LocatorAtRest ==
  /\ lpc = "off"
  /\ paragraph_text = <<>>
  /\ original_text = <<>>
  /\ positions = <<>>
  /\ used_positions = {}
  /\ selected_position = NoPosition

\* ------------------------------------------------- the suggestions service
\* the profiles that call the service
Profiles == {"p1", "p2"}

\* the documents table: d1 and d3 belong to p1 and d2 to p2
DocumentTable == {[id |-> "d1", profile_id |-> "p1"],
                  [id |-> "d2", profile_id |-> "p2"],
                  [id |-> "d3", profile_id |-> "p1"]}

\* the document ids a request can name; no document has the id d0
DocumentIds == {"d1", "d2", "d0"}

\* the five keys a suggestion object of the provider must have
RequiredFields == {"rule_id", "category", "original_text", "suggestion_text",
                   "message"}

\* the content of a document whose content column is NULL; no text a
\* document of the model holds is this word
NoContent == "None"

\* model_dump(exclude_unset=True) of a DocumentUpdate that sets no field
NoData == [cols |-> {}, title |-> "", content |-> NoContent]

\* no call: the request slot is free; version_id 0 names no version
NoCall == [op |-> "none", profile_id |-> "", document_id |-> "",
           original_text |-> <<>>, rule_id |-> <<>>, paragraphs |-> <<>>,
           completions |-> <<>>, data |-> NoData, version_id |-> 0]

\* no answer yet.  outcome is "none", "returned" (a response model was
\* returned), "raised" (an HTTPException with status_code) or "crashed" (an
\* exception no handler of the endpoint catches).  dispatched,
\* dismissals_read, removed and intact are history: the paragraphs a
\* provider call was made for, whether get_dismissed_suggestions was
\* called, the rows a clear deleted, and whether the row a dismiss left is
\* still there
NoResult == [outcome |-> "none", status_code |-> None, success |-> FALSE,
             dismissal_identifier |-> <<>>, cleared_count |-> None,
             suggestions |-> <<>>, total_paragraphs_processed |-> None,
             errors |-> <<>>, dispatched |-> <<>>,
             dismissals_read |-> FALSE, removed |-> None, intact |-> FALSE]

\* history: the pairs of a document dismissed since its last clear
\* (active), and those a clear removed and nobody dismissed since (cleared)
NoDismissals == [d \in DocumentTable |-> [active |-> {}, cleared |-> {}]]

\* no request is being served and nothing was ever dismissed
ServiceAtRest ==
  /\ dismissed_suggestions = EmptyBag
  /\ hpc = [r \in Requests |-> "idle"]
  /\ call = [r \in Requests |-> NoCall]
  /\ result = [r \in Requests |-> NoResult]
  /\ dismissed_pairs = NoDismissals

\* ------------------------------------------------------ the document store
\* the texts a document is given: "" is the default content of
\* create_document
Contents == {"", "x"}

\* the rows of DocumentTable as create_document stores them by default
NewDocuments ==
  [id \in {d.id : d \in DocumentTable} |->
     [profile_id |-> (CHOOSE d \in DocumentTable : d.id = id).profile_id,
      title |-> "Untitled Document",
      content |-> ""]]

\* a database session that has loaded nothing
NoSession ==
  [document |-> [profile_id |-> "", title |-> "", content |-> NoContent],
   version |-> [document_id |-> "", content |-> NoContent]]

\* the documents are as they were created and have no version
DocumentsAtRest ==
  /\ documents = NewDocuments
  /\ document_versions = <<>>
  /\ session = [r \in Requests |-> NoSession]

InitGate ==
  /\ GateAtRest
  /\ DocumentsAtRest
  /\ LocatorAtRest
  /\ ServiceAtRest

\* time passes
Tick ==
  /\ now < MaxTime
  /\ now' = now + 1
  /\ admit_log' = WithinHour(admit_log, now + 1)
  /\ UNCHANGED <<profile_row, pc, current_profile, requests_per_hour, pending,
                 response, admitted_in_window, limits_used>>
  /\ UNCHANGED <<locator_vars, service_vars, document_vars>>

\* the caller has received the response of request r
Return(r) ==
  /\ pc[r] = "done"
  /\ pc' = [pc EXCEPT ![r] = "idle"]
  /\ current_profile' = [current_profile EXCEPT ![r] = NewProfile]
  /\ requests_per_hour' = [requests_per_hour EXCEPT ![r] = None]
  /\ response' = [response EXCEPT ![r] = NoResponse]
  /\ UNCHANGED <<now, profile_row, pending, admitted_in_window, admit_log,
                 limits_used>>
  /\ UNCHANGED <<locator_vars, service_vars, document_vars>>

\* ------------------------------------------------ one request at a time
\* what rate_limit_dependency does to the gate: the profile is loaded,
\* check_rate_limit is run on it and its UPDATE committed
rate_limit_dependency(r, limit) ==
  /\ \A q \in Requests : pc[q] = "idle"
  /\ Len(admit_log) < MaxAdmitted
  /\ LET loaded == profile_row
         out == check_rate_limit(limit, loaded, now)
     IN /\ profile_row' = ApplyUpdate(profile_row, out.values)
        /\ response' = [response EXCEPT ![r] = out.response]
        /\ current_profile' = [current_profile EXCEPT ![r] = out.response.profile]
        /\ admitted_in_window' =
             IF out.raised THEN admitted_in_window ELSE AdmittedAfter(out.values)
        /\ admit_log' = IF out.raised THEN admit_log ELSE Append(admit_log, now)
  /\ pc' = [pc EXCEPT ![r] = "done"]
  /\ requests_per_hour' = [requests_per_hour EXCEPT ![r] = limit]
  /\ limits_used' = limits_used \cup {limit}
  /\ UNCHANGED <<now, pending>>

\* rate_limit_dependency run from the load of the profile to its return, with
\* no other request in between
RateLimitDependency(r, limit) ==
  /\ rate_limit_dependency(r, limit)
  /\ UNCHANGED <<locator_vars, service_vars, document_vars>>

NextGate ==
  \/ Tick
  \/ \E r \in Requests : Return(r)
  \/ \E r \in Requests, limit \in Limits : RateLimitDependency(r, limit)

SpecGate == InitGate /\ [][NextGate]_vars

\* --------------------------------------------- requests running together
\* get_current_user_profile: the request reads the committed row
GetCurrentUserProfile(r, limit) ==
  /\ pc[r] = "idle"
  /\ pc' = [pc EXCEPT ![r] = "loaded"]
  /\ current_profile' = [current_profile EXCEPT ![r] = profile_row]
  /\ requests_per_hour' = [requests_per_hour EXCEPT ![r] = limit]
  /\ UNCHANGED <<now, profile_row, pending, response, admitted_in_window,
                 admit_log, limits_used>>
  /\ UNCHANGED <<locator_vars, service_vars, document_vars>>

\* check_rate_limit from reading the clock to raising 429 or to the await of
\* db.execute(update(...)); it works on the Profile object loaded earlier
CheckRateLimit(r) ==
  /\ pc[r] = "loaded"
  /\ LET out == check_rate_limit(requests_per_hour[r], current_profile[r], now)
     IN /\ pending' = [pending EXCEPT ![r] = out.values]
        /\ response' = [response EXCEPT ![r] = out.response]
        /\ pc' = [pc EXCEPT ![r] = IF out.raised THEN "done" ELSE "committing"]
  /\ UNCHANGED <<now, profile_row, current_profile, requests_per_hour,
                 admitted_in_window, admit_log, limits_used>>
  /\ UNCHANGED <<locator_vars, service_vars, document_vars>>

\* await db.commit(): the UPDATE becomes the committed row, the Profile object
\* is brought up to date and returned
Commit(r) ==
  /\ pc[r] = "committing"
  /\ admitted_in_window < MaxAdmitted
  /\ profile_row' = ApplyUpdate(profile_row, pending[r])
  /\ current_profile' = [current_profile EXCEPT ![r] = response[r].profile]
  /\ pending' = [pending EXCEPT ![r] = NoUpdate]
  /\ admitted_in_window' = AdmittedAfter(pending[r])
  /\ pc' = [pc EXCEPT ![r] = "done"]
  /\ UNCHANGED <<now, requests_per_hour, response, admit_log, limits_used>>
  /\ UNCHANGED <<locator_vars, service_vars, document_vars>>

NextRace ==
  \/ Tick
  \/ \E r \in Requests : Return(r)
  \/ \E r \in Requests, limit \in SiteLimits : GetCurrentUserProfile(r, limit)
  \/ \E r \in Requests : CheckRateLimit(r)
  \/ \E r \in Requests : Commit(r)

SpecRace == InitGate /\ [][NextRace]_vars

\* ====================================================== text span locator
\* texts are sequences of characters; positions are 0-based as in Python
Alphabet == {"a", "b"}

SeqsUpTo(S, n) == UNION {[1 .. k -> S] : k \in 0 .. n}

Texts == SeqsUpTo(Alphabet, MaxTextLen) \cup {<<"a", "a", "a">>}
Needles == SeqsUpTo(Alphabet, MaxNeedleLen) \cup {<<"a", "a">>}

Spans == {<<s, e>> : s \in 0 .. MaxPos, e \in 0 .. MaxPos} \ 
           {<<s, e>> \in (0 .. MaxPos) \X (0 .. MaxPos) : s > e}

\* the case of the specification, whose positions lie beyond MaxPos
ExamplePositions == << <<2, 7>>, <<5, 10>> >>
ExampleUsed == { <<0, 5>> }

PositionLists == SeqsUpTo(Spans, MaxPositions) \cup {ExamplePositions}
UsedSets == {u \in SUBSET Spans : Cardinality(u) <= MaxUsed} \cup {ExampleUsed}

\* str.find(sub, start): the lowest index i >= start at which sub occurs in s,
\* or -1; the empty string occurs at every index up to len(s)
RECURSIVE find(_, _, _)
find(s, sub, start) ==
  IF start + Len(sub) > Len(s) THEN -1
  ELSE IF SubSeq(s, start + 1, start + Len(sub)) = sub THEN start
  ELSE find(s, sub, start + 1)

\* the loop of find_text_positions resuming behind the whole occurrence
RECURSIVE find_text_positions_from_end(_, _, _, _)
find_text_positions_from_end(text, orig, start, found) ==
  LET pos == find(text, orig, start) IN
  IF pos = -1 THEN found
  ELSE find_text_positions_from_end(
         text, orig, IF Len(orig) = 0 THEN pos + 1 ELSE pos + Len(orig),
         Append(found, <<pos, pos + Len(orig)>>))

\* the while loop of find_text_positions, entered with start and the
\* positions found so far
RECURSIVE find_text_positions_from(_, _, _, _)
find_text_positions_from(text, orig, start, found) ==
  LET pos == find(text, orig, start) IN
  IF pos = -1 THEN found
  ELSE find_text_positions_from(text, orig, pos + 1,
                                Append(found, <<pos, pos + Len(orig)>>))

find_text_positions(text, orig) == find_text_positions_from(text, orig, 0, <<>>)

\* is_overlapping with touching spans counted as overlapping
is_overlapping_touching(start, end, used) ==
  \E u \in used : ~(end < u[1] \/ start > u[2])

\* suggestions.py:176-179
is_overlapping(start, end, used) ==
  \E u \in used : ~(end <= u[1] \/ start >= u[2])

\* the for loop of select_best_position from the i-th position on
RECURSIVE select_best_position_from(_, _, _)
select_best_position_from(ps, used, i) ==
  IF i > Len(ps) THEN NoPosition
  ELSE IF ~is_overlapping(ps[i][1], ps[i][2], used) THEN ps[i]
  ELSE select_best_position_from(ps, used, i + 1)

select_best_position(ps, used) == select_best_position_from(ps, used, 1)

\* the inputs of one call of either function
InitLocator ==
  /\ GateAtRest
  /\ DocumentsAtRest
  /\ ServiceAtRest
  /\ selected_position = NoPosition
  /\ \/ /\ lpc = "find"
        /\ paragraph_text \in Texts
        /\ original_text \in Needles
        /\ positions = <<>>
        /\ used_positions = {}
     \/ /\ lpc = "select"
        /\ paragraph_text = <<>>
        /\ original_text = <<>>
        /\ positions \in PositionLists
        /\ used_positions \in UsedSets

FindTextPositions ==
  /\ lpc = "find"
  /\ positions' = find_text_positions(paragraph_text, original_text)
  /\ lpc' = "found"
  /\ UNCHANGED <<paragraph_text, original_text, used_positions,
                 selected_position>>
  /\ UNCHANGED <<gate_vars, service_vars, document_vars>>

SelectBestPosition ==
  /\ lpc = "select"
  /\ selected_position' = select_best_position(positions, used_positions)
  /\ lpc' = "selected"
  /\ UNCHANGED <<paragraph_text, original_text, positions, used_positions>>
  /\ UNCHANGED <<gate_vars, service_vars, document_vars>>

NextLocator == FindTextPositions \/ SelectBestPosition

SpecLocator == InitLocator /\ [][NextLocator]_vars

\* ------------------------------------------------------ the analyze pipeline
\* Strings are sequences of characters.  A suggestion object of the
\* provider is a record: keys are the keys present, original_text and
\* rule_id two of its values, text_type the JSON type of its original_text;
\* category, suggestion_text and message are copied to the response as they
\* are and left out.  An element that is no object has type "number" or
\* "string" (with the value string).
Whitespace == {" "}

RECURSIVE lstrip(_)
lstrip(s) ==
  IF s # <<>> /\ Head(s) \in Whitespace THEN lstrip(Tail(s)) ELSE s

RECURSIVE rstrip(_)
rstrip(s) ==
  IF s # <<>> /\ s[Len(s)] \in Whitespace
  THEN rstrip(SubSeq(s, 1, Len(s) - 1))
  ELSE s

\* str.strip()
strip(s) == rstrip(lstrip(s))

SuggestionObject(text, rule) ==
  [type |-> "object", keys |-> RequiredFields, original_text |-> text,
   text_type |-> "str", rule_id |-> rule, string |-> ""]

NumberElement ==
  [type |-> "number", keys |-> {}, original_text |-> <<>>,
   text_type |-> "str", rule_id |-> <<>>, string |-> ""]

StringElement(s) ==
  [type |-> "string", keys |-> {}, original_text |-> <<>>,
   text_type |-> "str", rule_id |-> <<>>, string |-> s]

\* what the provider call of one paragraph comes to: "raise" (the API call
\* raises or times out), "not_json" (content that json.loads rejects),
\* "json_scalar" (a JSON number, boolean or null), "json_object" (a JSON
\* object; items are its keys), "json_list" (a JSON list of items)
Reply(kind, items) == [kind |-> kind, items |-> items]

\* analyze_paragraph_with_llm: every exception raised inside is caught and
\* turned into the empty list, the TypeError of len() of a scalar too; an
\* object is returned as it is, and iterating it yields its keys
analyze_paragraph_with_llm(reply) ==
  [is_exception |-> FALSE,
   items |-> IF reply.kind \in {"json_list", "json_object"}
             THEN reply.items
             ELSE <<>>]

\* asyncio.gather(*tasks, return_exceptions=True): the result of task k is
\* at index k, whenever it completed.  completions lists the tasks in the
\* order they completed, each with what its provider call came to
gather_in_completion_order(n, completions) ==
  [k \in 1 .. n |-> analyze_paragraph_with_llm(completions[k].reply)]

gather(n, completions) ==
  [k \in 1 .. n |->
     LET c == CHOOSE j \in 1 .. Len(completions) : completions[j].task = k
     IN analyze_paragraph_with_llm(completions[c].reply)]

\* f"{original_text}|{rule_id}"
create_dismissal_identifier(text, rule) == text \o <<"|">> \o rule

\* field not in suggestion_data, for each required field: on an object the
\* key test; on a string the substring test, which for the strings used
\* here (each a field name or shorter than any) is equality
MissingFields(item) ==
  IF item.type = "object" THEN RequiredFields \ item.keys
  ELSE {f \in RequiredFields : f # item.string}

\* the [... if p.text_content.strip()] filter, as indices into paragraphs
RECURSIVE non_empty_from(_, _)
non_empty_from(paragraphs, i) ==
  IF i > Len(paragraphs) THEN <<>>
  ELSE IF strip(paragraphs[i].text_content) # <<>>
       THEN <<i>> \o non_empty_from(paragraphs, i + 1)
       ELSE non_empty_from(paragraphs, i + 1)

non_empty_paragraphs(paragraphs) == non_empty_from(paragraphs, 1)

\* the rows of one profile, whatever the document
get_dismissed_suggestions_of_profile(table, profile_id, document_id) ==
  {row.dismissal_identifier :
     row \in {t \in BagToSet(table) : t.profile_id = profile_id}}

\* the rows of one profile and document, as the set of their identifiers
get_dismissed_suggestions_of_all(table, profile_id, document_id) ==
  {row.dismissal_identifier : row \in BagToSet(table)}

get_dismissed_suggestions(table, profile_id, document_id) ==
  {row.dismissal_identifier :
     row \in {t \in BagToSet(table) : /\ t.profile_id = profile_id
                                      /\ t.document_id = document_id}}

\* select(Document).where(id == document_id)
document_of_any_profile(profile_id, document_id) ==
  {d \in DocumentTable : d.id = document_id}

\* select(Document).where(id == document_id, profile_id == current_profile.id)
document_of(profile_id, document_id) ==
  {d \in DocumentTable : d.id = document_id /\ d.profile_id = profile_id}

MAX_PARAGRAPHS_PER_REQUEST == 10
MAX_PARAGRAPH_LENGTH == 2000
HTTP_400_BAD_REQUEST == 400
HTTP_404_NOT_FOUND == 404

\* paragraph.base_offset + relative_start, paragraph.base_offset + relative_end
global_position_relative(base_offset, relative) == relative

global_position(base_offset, relative) == base_offset + relative

\* errors.append(f"Missing fields {missing_fields} in suggestion for
\* paragraph {paragraph.paragraph_id}")
missing_fields_error_twice(errors, paragraph, item) ==
  errors \o << [kind |-> "missing_fields",
                paragraph_id |-> paragraph.paragraph_id,
                missing_fields |-> MissingFields(item)],
               [kind |-> "missing_fields",
                paragraph_id |-> paragraph.paragraph_id,
                missing_fields |-> MissingFields(item)] >>

missing_fields_error(errors, paragraph, item) ==
  Append(errors, [kind |-> "missing_fields",
                  paragraph_id |-> paragraph.paragraph_id,
                  missing_fields |-> MissingFields(item)])

\* errors.append(f"Failed to analyze paragraph {paragraph.paragraph_id}: ...")
failed_paragraph_error(errors, paragraph) ==
  Append(errors, [kind |-> "failed_paragraph",
                  paragraph_id |-> paragraph.paragraph_id,
                  missing_fields |-> {}])

\* the state of the loops over the results: the locals all_suggestions,
\* errors, processed_count and used_positions, and whether an exception
\* has left the handler
NoProgress == [all_suggestions |-> <<>>, errors |-> <<>>,
               processed_count |-> 0, used_positions |-> {},
               crashed |-> FALSE]

\* add_used_position made after the dismissal check, which skips it
add_used_position_if_kept(used, sel, is_dismissed) ==
  IF is_dismissed THEN used ELSE used \cup {sel}

\* used_positions.add((start_pos, end_pos)), made before the dismissal
\* identifier is looked up: whether the candidate is dismissed plays no part
add_used_position(used, sel, is_dismissed) == used \cup {sel}

\* the body of `for suggestion_data in llm_result`, for candidate c of the
\* paragraph at index p of the request.  `in` on a number raises TypeError,
\* and so do the subscript of a string and str.find of a text that is no
\* string; except (KeyError, ValueError) does not catch it.  suggestion_id
\* is a uuid4, here the rank of the suggestion in the response; paragraph
\* and candidate are history: where the suggestion comes from
convert_suggestion(paragraph, p, item, c, dismissed_identifiers, st) ==
  IF item.type = "number" THEN [st EXCEPT !.crashed = TRUE]
  ELSE IF MissingFields(item) # {}
  THEN [st EXCEPT !.errors = missing_fields_error(@, paragraph, item)]
  ELSE IF item.type # "object" \/ item.text_type # "str"
  THEN [st EXCEPT !.crashed = TRUE]
  ELSE
    LET ps == find_text_positions(paragraph.text_content, item.original_text)
    IN
    IF ps = <<>> THEN st
    ELSE
      LET sel == select_best_position(ps, st.used_positions) IN
      IF sel = NoPosition THEN st
      ELSE
        LET dismissal_id ==
              create_dismissal_identifier(item.original_text, item.rule_id)
            reserved ==
              [st EXCEPT !.used_positions =
                 add_used_position(@, sel,
                                   dismissal_id \in dismissed_identifiers)]
        IN
        IF dismissal_id \in dismissed_identifiers THEN reserved
        ELSE [reserved EXCEPT !.all_suggestions =
                Append(@, [suggestion_id |-> Len(st.all_suggestions) + 1,
                           rule_id |-> item.rule_id,
                           original_text |-> item.original_text,
                           global_start |->
                             global_position(paragraph.base_offset, sel[1]),
                           global_end |->
                             global_position(paragraph.base_offset, sel[2]),
                           dismissal_identifier |-> dismissal_id,
                           paragraph |-> p,
                           candidate |-> c])]

RECURSIVE convert_suggestions(_, _, _, _, _, _)
convert_suggestions(paragraph, p, items, c, dismissed_identifiers, st) ==
  IF st.crashed \/ c > Len(items) THEN st
  ELSE convert_suggestions(paragraph, p, items, c + 1, dismissed_identifiers,
         convert_suggestion(paragraph, p, items[c], c,
                            dismissed_identifiers, st))

\* for (paragraph, llm_result) in zip(non_empty_paragraphs, llm_results)
\* used_positions = set(), for each paragraph
used_positions_kept(used) == used

new_used_positions(used) == {}

RECURSIVE process_results(_, _, _, _, _, _)
process_results(paragraphs, zipped, llm_results, i, dismissed, st) ==
  IF st.crashed \/ i > Len(zipped) \/ i > Len(llm_results) THEN st
  ELSE
    LET paragraph == paragraphs[zipped[i]]
        counted == [st EXCEPT !.processed_count = @ + 1,
                              !.used_positions = new_used_positions(@)]
    IN
    IF llm_results[i].is_exception
    THEN process_results(paragraphs, zipped, llm_results, i + 1, dismissed,
           [counted EXCEPT !.errors = failed_paragraph_error(@, paragraph)])
    ELSE process_results(paragraphs, zipped, llm_results, i + 1, dismissed,
           convert_suggestions(paragraph, zipped[i], llm_results[i].items, 1,
                               dismissed, counted))

\* len(request_data.paragraphs) > MAX_PARAGRAPHS_PER_REQUEST
too_many_paragraphs_at_cap(paragraphs) ==
  Len(paragraphs) >= MAX_PARAGRAPHS_PER_REQUEST

too_many_paragraphs(paragraphs) ==
  Len(paragraphs) > MAX_PARAGRAPHS_PER_REQUEST

\* len(paragraph.text_content) > MAX_PARAGRAPH_LENGTH
paragraph_too_long(paragraph) ==
  Len(paragraph.text_content) > MAX_PARAGRAPH_LENGTH

\* the paragraphs the results are zipped with
all_paragraphs(paragraphs) == [i \in 1 .. Len(paragraphs) |-> i]

zipped_paragraphs(paragraphs) == non_empty_paragraphs(paragraphs)

\* analyze_paragraphs past the rate limit: the caps, the ownership check,
\* the read of the dismissals, the fan-out and the loops over the results
analyze_paragraphs(profile_id, document_id, paragraphs, completions, table) ==
  IF too_many_paragraphs(paragraphs)
  THEN [NoResult EXCEPT !.outcome = "raised",
                        !.status_code = HTTP_400_BAD_REQUEST]
  ELSE IF \E i \in 1 .. Len(paragraphs) : paragraph_too_long(paragraphs[i])
  THEN [NoResult EXCEPT !.outcome = "raised",
                        !.status_code = HTTP_400_BAD_REQUEST]
  ELSE IF document_of(profile_id, document_id) = {}
  THEN [NoResult EXCEPT !.outcome = "raised",
                        !.status_code = HTTP_404_NOT_FOUND]
  ELSE
    LET dismissed_identifiers ==
          get_dismissed_suggestions(table, profile_id, document_id)
        tasks == non_empty_paragraphs(paragraphs)
        llm_results == gather(Len(tasks), completions)
        st == process_results(paragraphs, zipped_paragraphs(paragraphs),
                              llm_results, 1, dismissed_identifiers,
                              NoProgress)
    IN
    IF st.crashed
    THEN [NoResult EXCEPT !.outcome = "crashed", !.dispatched = tasks,
                          !.dismissals_read = TRUE]
    ELSE [NoResult EXCEPT !.outcome = "returned",
                          !.dismissals_read = TRUE,
                          !.suggestions = st.all_suggestions,
                          !.total_paragraphs_processed = st.processed_count,
                          !.errors = st.errors,
                          !.dispatched = tasks]

\* -------------------------------------------------- the dismissal registry
\* the rows of one profile and document
RowsOf(table, profile_id, document_id) ==
  {t \in BagToSet(table) : /\ t.profile_id = profile_id
                           /\ t.document_id = document_id}

\* db.add(dismissal); await db.commit().  The table is unique on
\* (profile_id, document_id, dismissal_identifier): the commit of a second
\* row of a triple fails with a unique constraint violation
commit_dismissal(table, row) ==
  IF BagIn(row, table)
  THEN [table |-> table, error |-> "unique constraint"]
  ELSE [table |-> table (+) SetToBag({row}), error |-> "none"]

HTTP_500_INTERNAL_SERVER_ERROR == 500

\* what dismiss_suggestion hands back after the commit: the response, or,
\* after an exception whose text holds "unique constraint", the same
\* response; any other exception becomes a 500
dismissal_response_strict(error, dismissal_identifier) ==
  IF error = "none"
  THEN [NoResult EXCEPT !.outcome = "returned", !.success = TRUE,
                        !.dismissal_identifier = dismissal_identifier,
                        !.intact = TRUE]
  ELSE [NoResult EXCEPT !.outcome = "raised",
                        !.status_code = HTTP_500_INTERNAL_SERVER_ERROR]

dismissal_response(error, dismissal_identifier) ==
  IF error \in {"none", "unique constraint"}
  THEN [NoResult EXCEPT !.outcome = "returned", !.success = TRUE,
                        !.dismissal_identifier = dismissal_identifier,
                        !.intact = TRUE]
  ELSE [NoResult EXCEPT !.outcome = "raised",
                        !.status_code = HTTP_500_INTERNAL_SERVER_ERROR]

\* raise HTTPException(status_code=404), the document not being the caller's
NotFound == [NoResult EXCEPT !.outcome = "raised",
                             !.status_code = HTTP_404_NOT_FOUND]

\* select(func.count(DismissedSuggestion.id)).where(...)
count_dismissed(table, profile_id, document_id) ==
  BagCardinality([t \in RowsOf(table, profile_id, document_id) |-> table[t]])

\* delete(DismissedSuggestion).where(...); await db.commit()
delete_dismissed(table, profile_id, document_id) ==
  [t \in BagToSet(table) \ RowsOf(table, profile_id, document_id) |->
     table[t]]

\* ClearDismissedResponse(success=True, cleared_count=cleared_count);
\* removed is history: the rows the DELETE removed
clear_response(cleared_count, removed) ==
  [NoResult EXCEPT !.outcome = "returned", !.success = TRUE,
                   !.cleared_count = cleared_count, !.removed = removed]

Dismissed(pairs, profile_id, document_id, pair) ==
  [d \in DocumentTable |->
     IF d.id = document_id /\ d.profile_id = profile_id
     THEN [active |-> pairs[d].active \cup {pair},
           cleared |-> pairs[d].cleared \ {pair}]
     ELSE pairs[d]]

Cleared(pairs, profile_id, document_id) ==
  [d \in DocumentTable |->
     IF d.id = document_id /\ d.profile_id = profile_id
     THEN [active |-> {}, cleared |-> pairs[d].cleared \cup pairs[d].active]
     ELSE pairs[d]]

\* history: the rows the dismiss calls of the other requests left in a
\* document are gone once request r has cleared it
AfterClear(r, answer) ==
  [q \in Requests |->
     IF q = r THEN answer
     ELSE IF /\ call[q].op = "dismiss"
             /\ call[q].profile_id = call[r].profile_id
             /\ call[q].document_id = call[r].document_id
          THEN [result[q] EXCEPT !.intact = FALSE]
          ELSE result[q]]

\* --------------------------------------------------- inputs of an analysis
\* rule ids, and the one of the worked example of the prompt
SpellingRule == <<"s">>
GrammarRule == <<"g">>
ItsRule == <<"grammar:its_vs_its">>

\* paragraph texts: two with text, one of whitespace only
Aba == <<"a", "b", "a">>
Ba == <<"b", "a">>
Blank == <<" ">>

\* the paragraph texts of a request, in order
Layouts == {<<Aba>>, <<Blank>>, <<Blank, Aba>>, <<Aba, Aba>>,
            <<Aba, Blank, Ba>>}

\* base_offset: where the paragraph begins in a document whose paragraphs
\* are one separator apart
RECURSIVE BaseOffset(_, _)
BaseOffset(layout, i) ==
  IF i = 1 THEN 0
  ELSE BaseOffset(layout, i - 1) + Len(layout[i - 1]) + 1

Paragraphs(layout) ==
  [i \in 1 .. Len(layout) |->
     [paragraph_id |-> i, text_content |-> layout[i],
      base_offset |-> BaseOffset(layout, i)]]

\* "Its going to rain." at offset 100, and what the provider finds in it
ItsGoingToRain == <<"I", "t", "s", " ", "g", "o", "i", "n", "g", " ",
                    "t", "o", " ", "r", "a", "i", "n", ".">>
ExampleParagraphs ==
  << [paragraph_id |-> 1, text_content |-> ItsGoingToRain,
      base_offset |-> 100] >>
ExampleCompletions ==
  << [task |-> 1,
      reply |-> Reply("json_list",
                      <<SuggestionObject(<<"I", "t", "s">>, ItsRule)>>)] >>

\* the elements a provider list is made of: well-formed objects (one with
\* the empty original_text), an object without its message, a number, and
\* an object whose original_text is a number
Candidates ==
  {SuggestionObject(<<"a">>, GrammarRule),
   SuggestionObject(<<"a">>, SpellingRule),
   SuggestionObject(<<"a", "b">>, GrammarRule),
   SuggestionObject(<<>>, GrammarRule),
   [SuggestionObject(<<"a">>, GrammarRule) EXCEPT
      !.keys = RequiredFields \ {"message"}],
   NumberElement,
   [SuggestionObject(<<>>, GrammarRule) EXCEPT !.text_type = "int"]}

\* one suggestion object where the list was asked for: its keys
ObjectReply ==
  Reply("json_object",
        <<StringElement("rule_id"), StringElement("original_text")>>)

\* the replies of exactly n elements, the lists made of candidates
Replies(candidates, n) ==
  {Reply("json_list", items) : items \in [1 .. n -> candidates]}
  \cup (IF n = 0
        THEN {Reply("raise", <<>>), Reply("not_json", <<>>),
              Reply("json_scalar", <<>>)}
        ELSE {r \in {ObjectReply} : Len(r.items) = n})

\* the replies to k provider calls, of at most n elements in all
RECURSIVE ReplySeqs(_, _, _)
ReplySeqs(candidates, k, n) ==
  IF k = 0 THEN {<<>>}
  ELSE UNION {{<<first>> \o rest :
                 first \in Replies(candidates, m),
                 rest \in ReplySeqs(candidates, k - 1, n - m)} :
              m \in 0 .. n}

Permutations1(k) ==
  {f \in [1 .. k -> 1 .. k] : \A i, j \in 1 .. k : f[i] = f[j] => i = j}

\* the provider calls of a request in every order of completion, with at
\* most n elements in all
Completions(candidates, paragraphs, n) ==
  LET k == Len(non_empty_paragraphs(paragraphs)) IN
  {[j \in 1 .. k |-> [task |-> order[j], reply |-> replies[order[j]]]] :
     replies \in ReplySeqs(candidates, k, n), order \in Permutations1(k)}

\* a row of the dismissed_suggestions table
DismissalRow(profile_id, document_id, dismissal_identifier) ==
  [profile_id |-> profile_id, document_id |-> document_id,
   dismissal_identifier |-> dismissal_identifier]

\* AnalyzeRequest deleting the dismissals of the document once they are read
AnalyzeRequest_clearing(r, profile_id, document_id, paragraphs, completions, out) ==
  /\ \A q \in Requests : hpc[q] = "idle"
  /\ call' = [call EXCEPT ![r] =
                [NoCall EXCEPT !.op = "analyze",
                               !.profile_id = profile_id,
                               !.document_id = document_id,
                               !.paragraphs = paragraphs,
                               !.completions = completions]]
  /\ result' = [result EXCEPT ![r] = out]
  /\ hpc' = [hpc EXCEPT ![r] = "done"]
  /\ dismissed_suggestions' =
       IF out.dismissals_read
       THEN delete_dismissed(dismissed_suggestions, profile_id, document_id)
       ELSE dismissed_suggestions
  /\ UNCHANGED dismissed_pairs

\* what a request to POST /suggestions/analyze that ends with the outcome
\* out does to the service: the database session of the handler executes
\* SELECTs only
AnalyzeRequest(r, profile_id, document_id, paragraphs, completions, out) ==
  /\ \A q \in Requests : hpc[q] = "idle"
  /\ call' = [call EXCEPT ![r] =
                [NoCall EXCEPT !.op = "analyze",
                               !.profile_id = profile_id,
                               !.document_id = document_id,
                               !.paragraphs = paragraphs,
                               !.completions = completions]]
  /\ result' = [result EXCEPT ![r] = out]
  /\ hpc' = [hpc EXCEPT ![r] = "done"]
  /\ UNCHANGED <<dismissed_suggestions, dismissed_pairs>>

\* POST /suggestions/analyze, past the rate limit, in one step
AnalyzeParagraphs(r, profile_id, document_id, paragraphs, completions) ==
  /\ AnalyzeRequest(r, profile_id, document_id, paragraphs, completions,
                    analyze_paragraphs(profile_id, document_id, paragraphs,
                                       completions, dismissed_suggestions))
  /\ UNCHANGED <<gate_vars, locator_vars, document_vars>>

\* p1 analyzes its document d1, where it has dismissed nothing or "a" of
\* the grammar rule
InitAnalyze ==
  /\ GateAtRest
  /\ DocumentsAtRest
  /\ LocatorAtRest
  /\ hpc = [r \in Requests |-> "idle"]
  /\ call = [r \in Requests |-> NoCall]
  /\ result = [r \in Requests |-> NoResult]
  /\ \/ /\ dismissed_suggestions = EmptyBag
        /\ dismissed_pairs = NoDismissals
     \/ /\ dismissed_suggestions =
             SetToBag({DismissalRow("p1", "d1",
                         create_dismissal_identifier(<<"a">>, GrammarRule))})
        /\ dismissed_pairs =
             Dismissed(NoDismissals, "p1", "d1", << <<"a">>, GrammarRule >>)

\* p1 analyzes d1 with the paragraphs of a layout, the provider returning
\* every list of candidates; for the two paragraphs "aba" the candidates are
\* "a" of the two rules
AnalyzeLayout ==
  /\ \A q \in Requests : hpc[q] = "idle"
  /\ \E layout \in Layouts :
       \E completions \in
         Completions(IF layout = <<Aba, Aba>>
                       THEN {SuggestionObject(<<"a">>, GrammarRule),
                             SuggestionObject(<<"a">>, SpellingRule)}
                       ELSE Candidates,
                     Paragraphs(layout), MaxElements) :
         AnalyzeParagraphs(1, "p1", "d1", Paragraphs(layout), completions)

AnalyzeExample ==
  AnalyzeParagraphs(1, "p1", "d1", ExampleParagraphs, ExampleCompletions)

\* a request of count paragraphs, the first of length characters and the
\* others "aba"
AtCaps(count, length) ==
  Paragraphs([i \in 1 .. count |->
                IF i = 1 THEN [j \in 1 .. length |-> "b"] ELSE Aba])

\* requests at and just over the two caps, for a document of the caller's
\* and for one that does not exist; the provider finds "a" in the last
\* paragraph and nothing in the others
AnalyzeAtCaps ==
  /\ \A q \in Requests : hpc[q] = "idle"
  /\ \E count \in {MAX_PARAGRAPHS_PER_REQUEST - 1,
                    MAX_PARAGRAPHS_PER_REQUEST,
                    MAX_PARAGRAPHS_PER_REQUEST + 1},
        length \in {MAX_PARAGRAPH_LENGTH - 1, MAX_PARAGRAPH_LENGTH,
                    MAX_PARAGRAPH_LENGTH + 1},
        document_id \in {"d1", "d0"} :
       AnalyzeParagraphs(1, "p1", document_id, AtCaps(count, length),
         [k \in 1 .. count |->
            [task |-> k,
             reply |-> Reply("json_list",
                             IF k = count
                             THEN <<SuggestionObject(<<"a">>, GrammarRule)>>
                             ELSE <<>>)]])

NextAnalyze ==
  \/ AnalyzeLayout
  \/ AnalyzeExample
  \/ AnalyzeAtCaps

SpecAnalyze == InitAnalyze /\ [][NextAnalyze]_vars

\* ------------------------------------------- dismiss, clear and analyze
\* the (original_text, rule_id) pairs that get dismissed
DismissablePairs == {<< <<"a">>, GrammarRule >>, << <<"a">>, SpellingRule >>}

\* the candidates the provider returns for a document with dismissals
DismissableCandidates ==
  {SuggestionObject(pair[1], pair[2]) : pair \in DismissablePairs}

\* who calls, and for which document: the owner of d1, the owner of d2, p1
\* on the document of p2 and p1 on a document that does not exist
Callers == {<<"p1", "d1">>, <<"p2", "d2">>, <<"p1", "d2">>, <<"p1", "d0">>}

\* the callers of the concurrent runs
RaceCallers == {<<"p1", "d1">>, <<"p1", "d0">>}

DismissCall(profile_id, document_id, pair) ==
  [NoCall EXCEPT !.op = "dismiss", !.profile_id = profile_id,
                 !.document_id = document_id, !.original_text = pair[1],
                 !.rule_id = pair[2]]

ClearCall(profile_id, document_id) ==
  [NoCall EXCEPT !.op = "clear", !.profile_id = profile_id,
                 !.document_id = document_id]

\* dismiss_suggestion from the creation of the identifier on: the row is
\* committed and the response made, for the call c of request r
InsertDismissal(r, c) ==
  LET dismissal_identifier ==
        create_dismissal_identifier(c.original_text, c.rule_id)
      committed ==
        commit_dismissal(dismissed_suggestions,
                         DismissalRow(c.profile_id, c.document_id,
                                      dismissal_identifier))
      answer == dismissal_response(committed.error, dismissal_identifier)
  IN /\ dismissed_suggestions' = committed.table
     /\ result' = [result EXCEPT ![r] = answer]
     /\ dismissed_pairs' =
          IF answer.outcome = "returned"
          THEN Dismissed(dismissed_pairs, c.profile_id, c.document_id,
                         <<c.original_text, c.rule_id>>)
          ELSE dismissed_pairs

\* clear_dismissed_suggestions from the DELETE on, for the call c of
\* request r that counted cleared_count rows
DeleteDismissals(r, c, cleared_count) ==
  /\ dismissed_suggestions' =
       delete_dismissed(dismissed_suggestions, c.profile_id, c.document_id)
  /\ result' =
       AfterClear(r, clear_response(cleared_count,
                    count_dismissed(dismissed_suggestions, c.profile_id,
                                    c.document_id)))
  /\ dismissed_pairs' = Cleared(dismissed_pairs, c.profile_id, c.document_id)

\* POST /suggestions/dismiss, in one step
DismissSuggestion(r, profile_id, document_id, pair) ==
  /\ \A q \in Requests : hpc[q] = "idle"
  /\ call' = [call EXCEPT ![r] = DismissCall(profile_id, document_id, pair)]
  /\ hpc' = [hpc EXCEPT ![r] = "done"]
  /\ IF document_of(profile_id, document_id) = {}
     THEN /\ result' = [result EXCEPT ![r] = NotFound]
          /\ UNCHANGED <<dismissed_suggestions, dismissed_pairs>>
     ELSE InsertDismissal(r, DismissCall(profile_id, document_id, pair))
  /\ UNCHANGED <<gate_vars, locator_vars, document_vars>>

\* DELETE /suggestions/dismissed/{document_id}, in one step
ClearDismissedSuggestions(r, profile_id, document_id) ==
  /\ \A q \in Requests : hpc[q] = "idle"
  /\ call' = [call EXCEPT ![r] = ClearCall(profile_id, document_id)]
  /\ hpc' = [hpc EXCEPT ![r] = "done"]
  /\ IF document_of(profile_id, document_id) = {}
     THEN /\ result' = [result EXCEPT ![r] = NotFound]
          /\ UNCHANGED <<dismissed_suggestions, dismissed_pairs>>
     ELSE DeleteDismissals(r, ClearCall(profile_id, document_id),
            count_dismissed(dismissed_suggestions, profile_id, document_id))
  /\ UNCHANGED <<gate_vars, locator_vars, document_vars>>

\* the response has been sent
FinishCall(r) ==
  /\ hpc[r] = "done"
  /\ hpc' = [hpc EXCEPT ![r] = "idle"]
  /\ call' = [call EXCEPT ![r] = NoCall]
  /\ result' = [result EXCEPT ![r] = NoResult]
  /\ session' = [session EXCEPT ![r] = NoSession]
  /\ UNCHANGED <<dismissed_suggestions, dismissed_pairs>>
  /\ UNCHANGED <<documents, document_versions>>
  /\ UNCHANGED <<gate_vars, locator_vars>>

\* an analysis of two paragraphs holding "a", the provider calls completing
\* in the order made
AnalyzeDismissed ==
  /\ \A q \in Requests : hpc[q] = "idle"
  /\ \E r \in Requests, caller \in Callers :
       \E replies \in ReplySeqs(DismissableCandidates, 2, MaxElements) :
         AnalyzeParagraphs(r, caller[1], caller[2], Paragraphs(<<Aba, Ba>>),
                           [k \in 1 .. 2 |->
                              [task |-> k, reply |-> replies[k]]])

NextDismiss ==
  \/ \E r \in Requests, caller \in Callers, pair \in DismissablePairs :
       DismissSuggestion(r, caller[1], caller[2], pair)
  \/ \E r \in Requests, caller \in Callers :
       ClearDismissedSuggestions(r, caller[1], caller[2])
  \/ AnalyzeDismissed
  \/ \E r \in Requests : FinishCall(r)

SpecDismiss == InitGate /\ [][NextDismiss]_vars

\* ----------------------------- dismiss and clear, one await after another
\* dismiss_suggestion up to the ownership check
StartDismiss(r, profile_id, document_id, pair) ==
  /\ hpc[r] = "idle"
  /\ call' = [call EXCEPT ![r] = DismissCall(profile_id, document_id, pair)]
  /\ IF document_of(profile_id, document_id) = {}
     THEN /\ result' = [result EXCEPT ![r] = NotFound]
          /\ hpc' = [hpc EXCEPT ![r] = "done"]
     ELSE /\ hpc' = [hpc EXCEPT ![r] = "inserting"]
          /\ UNCHANGED result
  /\ UNCHANGED <<dismissed_suggestions, dismissed_pairs>>
  /\ UNCHANGED <<gate_vars, locator_vars, document_vars>>

\* await db.commit() and the response
CommitDismiss(r) ==
  /\ hpc[r] = "inserting"
  /\ InsertDismissal(r, call[r])
  /\ hpc' = [hpc EXCEPT ![r] = "done"]
  /\ UNCHANGED call
  /\ UNCHANGED <<gate_vars, locator_vars, document_vars>>

\* clear_dismissed_suggestions up to the ownership check
StartClear(r, profile_id, document_id) ==
  /\ hpc[r] = "idle"
  /\ call' = [call EXCEPT ![r] = ClearCall(profile_id, document_id)]
  /\ IF document_of(profile_id, document_id) = {}
     THEN /\ result' = [result EXCEPT ![r] = NotFound]
          /\ hpc' = [hpc EXCEPT ![r] = "done"]
     ELSE /\ hpc' = [hpc EXCEPT ![r] = "counting"]
          /\ UNCHANGED result
  /\ UNCHANGED <<dismissed_suggestions, dismissed_pairs>>
  /\ UNCHANGED <<gate_vars, locator_vars, document_vars>>

\* the SELECT count(...) and cleared_count = count_result.scalar() or 0
CountDismissed(r) ==
  /\ hpc[r] = "counting"
  /\ result' = [result EXCEPT ![r] =
                  [NoResult EXCEPT !.cleared_count =
                     count_dismissed(dismissed_suggestions,
                                     call[r].profile_id,
                                     call[r].document_id)]]
  /\ hpc' = [hpc EXCEPT ![r] = "deleting"]
  /\ UNCHANGED <<call, dismissed_suggestions, dismissed_pairs>>
  /\ UNCHANGED <<gate_vars, locator_vars, document_vars>>

\* the DELETE, await db.commit() and the response
DeleteDismissed(r) ==
  /\ hpc[r] = "deleting"
  /\ DeleteDismissals(r, call[r], result[r].cleared_count)
  /\ hpc' = [hpc EXCEPT ![r] = "done"]
  /\ UNCHANGED call
  /\ UNCHANGED <<gate_vars, locator_vars, document_vars>>

NextDismissRace ==
  \/ \E r \in Requests, caller \in RaceCallers, pair \in DismissablePairs :
       StartDismiss(r, caller[1], caller[2], pair)
  \/ \E r \in Requests : CommitDismiss(r)
  \/ \E r \in Requests, caller \in RaceCallers :
       StartClear(r, caller[1], caller[2])
  \/ \E r \in Requests : CountDismissed(r)
  \/ \E r \in Requests : DeleteDismissed(r)
  \/ \E r \in Requests : FinishCall(r)

SpecDismissRace == InitGate /\ [][NextDismissRace]_vars

\* ------------------------------------ texts and rule ids that hold a "|"
PipeText == <<"a", "|", "a">>

\* the pairs dismissed and returned by the provider: "a" and "a|a" as
\* original_text and as rule_id
PipePairs == {<<text, rule>> : text \in {<<"a">>, PipeText},
                               rule \in {<<"a">>, PipeText}}

\* an analysis of the paragraph "a|a" for which the provider returns one
\* of the pairs
AnalyzePipes ==
  /\ \A q \in Requests : hpc[q] = "idle"
  /\ \E r \in Requests, pair \in PipePairs :
       AnalyzeParagraphs(r, "p1", "d1", Paragraphs(<<PipeText>>),
         << [task |-> 1,
             reply |-> Reply("json_list",
                             <<SuggestionObject(pair[1], pair[2])>>)] >>)

NextPipes ==
  \/ \E r \in Requests, pair \in PipePairs :
       DismissSuggestion(r, "p1", "d1", pair)
  \/ \E r \in Requests : ClearDismissedSuggestions(r, "p1", "d1")
  \/ AnalyzePipes
  \/ \E r \in Requests : FinishCall(r)

SpecPipes == InitGate /\ [][NextPipes]_vars

\* ======================================================= documents router
\* the rows select(Document).where(Document.id == document_id,
\* Document.profile_id == current_user_id) finds
select_document(table, profile_id, document_id) ==
  {id \in DOMAIN table :
     id = document_id /\ table[id].profile_id = profile_id}

\* the rows select(DocumentVersion).where(DocumentVersion.id == version_id,
\* DocumentVersion.document_id == document_id) finds
select_version(versions, version_id, document_id) ==
  {v \in DOMAIN versions :
     v = version_id /\ versions[v].document_id = document_id}

\* if document.content is not None: db.add(DocumentVersion(document_id=
\* document.id, content=document.content)), for the Document object loaded
\* by the session
archive(versions, document_id, document) ==
  IF document.content # NoContent
  THEN Append(versions, [document_id |-> document_id,
                         content |-> document.content])
  ELSE versions

\* for field, value in update_data.items(): setattr(document, field, value)
set_fields(document, update_data) ==
  [profile_id |-> document.profile_id,
   title |-> IF "title" \in update_data.cols
               THEN update_data.title ELSE document.title,
   content |-> IF "content" \in update_data.cols
                 THEN update_data.content ELSE document.content]

\* document.content = version.content
set_content(document, version) ==
  [document EXCEPT !.content = version.content]

\* the UPDATE the commit flushes for a Document object: the columns whose
\* attribute differs from what the session loaded are written to the row
flush(row, loaded, document) ==
  [profile_id |-> row.profile_id,
   title |-> IF document.title # loaded.title
               THEN document.title ELSE row.title,
   content |-> IF document.content # loaded.content
                 THEN document.content ELSE row.content]

\* the DocumentUpdate bodies sent: no field, the title, or the content
\* (a text or null)
UpdateData ==
  {NoData, [NoData EXCEPT !.cols = {"title"}, !.title = "t"]}
    \cup {[NoData EXCEPT !.cols = {"content"}, !.content = c] :
            c \in Contents \cup {NoContent}}

\* the callers of the documents router: the owner of d1 on d1, on d2 of
\* another profile and on the missing d0
DocumentCallers == {<<"p1", "d1">>, <<"p1", "d2">>, <<"p1", "d0">>}

\* update_document up to the ownership check
StartUpdate(r, profile_id, document_id, document_data) ==
  /\ hpc[r] = "idle"
  /\ call' = [call EXCEPT ![r] =
                [NoCall EXCEPT !.op = "update",
                               !.profile_id = profile_id,
                               !.document_id = document_id,
                               !.data = document_data]]
  /\ IF select_document(documents, profile_id, document_id) = {}
     THEN /\ result' = [result EXCEPT ![r] = NotFound]
          /\ hpc' = [hpc EXCEPT ![r] = "done"]
          /\ UNCHANGED session
     ELSE /\ session' = [session EXCEPT ![r].document = documents[document_id]]
          /\ hpc' = [hpc EXCEPT ![r] = "updating"]
          /\ UNCHANGED result
  /\ UNCHANGED <<documents, document_versions>>
  /\ UNCHANGED <<dismissed_suggestions, dismissed_pairs>>
  /\ UNCHANGED <<gate_vars, locator_vars>>

\* the version and the document of request r are committed together, the
\* Document object is refreshed and returned
CommitDocument(r, document) ==
  /\ Len(document_versions) < MaxVersions
  /\ document_versions' =
       archive(document_versions, call[r].document_id, session[r].document)
  /\ documents' =
       [documents EXCEPT ![call[r].document_id] =
          flush(@, session[r].document, document)]
  /\ session' =
       [session EXCEPT ![r].document =
          flush(documents[call[r].document_id], session[r].document,
                document)]
  /\ result' = [result EXCEPT ![r] = [NoResult EXCEPT !.outcome = "returned",
                                                      !.success = TRUE]]
  /\ hpc' = [hpc EXCEPT ![r] = "done"]
  /\ UNCHANGED call
  /\ UNCHANGED <<dismissed_suggestions, dismissed_pairs>>
  /\ UNCHANGED <<gate_vars, locator_vars>>

\* update_document from the archiving on
CommitUpdate(r) ==
  /\ hpc[r] = "updating"
  /\ CommitDocument(r, set_fields(session[r].document, call[r].data))

\* restore_document_version up to the check of the version
StartRestore(r, profile_id, document_id, version_id) ==
  /\ hpc[r] = "idle"
  /\ call' = [call EXCEPT ![r] =
                [NoCall EXCEPT !.op = "restore",
                               !.profile_id = profile_id,
                               !.document_id = document_id,
                               !.version_id = version_id]]
  /\ IF \/ select_document(documents, profile_id, document_id) = {}
        \/ select_version(document_versions, version_id, document_id) = {}
     THEN /\ result' = [result EXCEPT ![r] = NotFound]
          /\ hpc' = [hpc EXCEPT ![r] = "done"]
          /\ UNCHANGED session
     ELSE /\ session' =
               [session EXCEPT ![r] =
                  [document |-> documents[document_id],
                   version |-> document_versions[version_id]]]
          /\ hpc' = [hpc EXCEPT ![r] = "restoring"]
          /\ UNCHANGED result
  /\ UNCHANGED <<documents, document_versions>>
  /\ UNCHANGED <<dismissed_suggestions, dismissed_pairs>>
  /\ UNCHANGED <<gate_vars, locator_vars>>

\* restore_document_version from the archiving on
CommitRestore(r) ==
  /\ hpc[r] = "restoring"
  /\ CommitDocument(r, set_content(session[r].document, session[r].version))

NextDocuments ==
  \/ \E r \in Requests, caller \in DocumentCallers, data \in UpdateData :
       StartUpdate(r, caller[1], caller[2], data)
  \/ \E r \in Requests : CommitUpdate(r)
  \/ \E r \in Requests, caller \in DocumentCallers :
       \E version_id \in 1 .. MaxVersions :
         StartRestore(r, caller[1], caller[2], version_id)
  \/ \E r \in Requests : CommitRestore(r)
  \/ \E r \in Requests : FinishCall(r)

SpecDocuments == InitGate /\ [][NextDocuments]_vars

\* --------------------------------- dismissals of several documents at once
\* who calls, and for which document: p1 for its two documents and p2 for
\* its one
ScopeCallers == {<<"p1", "d1">>, <<"p1", "d3">>, <<"p2", "d2">>}

\* an analysis of the paragraph "aba" in which the provider finds "a", a
\* grammar matter
AnalyzeScoped ==
  /\ \A q \in Requests : hpc[q] = "idle"
  /\ \E r \in Requests, caller \in ScopeCallers :
       AnalyzeParagraphs(r, caller[1], caller[2], Paragraphs(<<Aba>>),
                         << [task |-> 1,
                             reply |-> Reply("json_list",
                                             <<SuggestionObject(<<"a">>,
                                                 GrammarRule)>>)] >>)

NextScope ==
  \/ \E r \in Requests, caller \in ScopeCallers, pair \in DismissablePairs :
       DismissSuggestion(r, caller[1], caller[2], pair)
  \/ \E r \in Requests, caller \in ScopeCallers :
       ClearDismissedSuggestions(r, caller[1], caller[2])
  \/ AnalyzeScoped
  \/ \E r \in Requests : FinishCall(r)

SpecScope == InitGate /\ [][NextScope]_vars

\* ================================================= analyze behind the gate
\* the HTTPException of check_rate_limit is the response of the request
TooManyRequests ==
  [NoResult EXCEPT !.outcome = "raised",
                   !.status_code = HTTP_429_TOO_MANY_REQUESTS]

\* where the task of the request is cancelled: nowhere, at the SELECT of
\* the document or while the provider calls are awaited
CancelPoints == {"no", "select", "gather"}

\* the outcome of a handler that would end with out, cancelled at the
\* await named: the checks of the caps come before the first await, and
\* the dismissals are read and the provider calls made before the gather
cancelled_at(out, at) ==
  IF at = "no" \/ out.status_code = HTTP_400_BAD_REQUEST THEN out
  ELSE IF at = "select" \/ out.status_code = HTTP_404_NOT_FOUND
  THEN IF at = "select"
         THEN [NoResult EXCEPT !.outcome = "cancelled"] ELSE out
  ELSE [NoResult EXCEPT !.outcome = "cancelled",
                        !.dismissals_read = TRUE,
                        !.dispatched = out.dispatched]

\* Depends with the checks of the handler made before the dependency
Depends_after_checks(admit, out) ==
  IF out.status_code = HTTP_400_BAD_REQUEST THEN out
  ELSE IF admit.raised THEN TooManyRequests ELSE out

\* current_profile: Profile = Depends(suggestions_rate_limit): the
\* dependency is run before the handler is called, and the handler is not
\* called when the dependency raises
Depends(admit, out) == IF admit.raised THEN TooManyRequests ELSE out

\* the requests sent through the gate: one paragraph "aba" in which the
\* provider finds "a", eleven paragraphs, and one paragraph over the
\* length cap
GatedRequests ==
  {[paragraphs |-> Paragraphs(<<Aba>>),
    completions |->
      << [task |-> 1,
          reply |-> Reply("json_list",
                          <<SuggestionObject(<<"a">>, GrammarRule)>>)] >>],
   [paragraphs |-> AtCaps(MAX_PARAGRAPHS_PER_REQUEST + 1, 1),
    completions |-> <<>>],
   [paragraphs |-> AtCaps(1, MAX_PARAGRAPH_LENGTH + 1),
    completions |-> <<>>]}

\* POST /suggestions/analyze by p1, from the rate limit dependency to the
\* response, with no other request in between
GatedAnalyze(r, limit, document_id, request_data, at) ==
  /\ rate_limit_dependency(r, limit)
  /\ AnalyzeRequest(r, "p1", document_id, request_data.paragraphs,
                    request_data.completions,
                    Depends(check_rate_limit(limit, profile_row, now),
                            cancelled_at(
                              analyze_paragraphs(
                                "p1", document_id, request_data.paragraphs,
                                request_data.completions,
                                dismissed_suggestions), at)))
  /\ UNCHANGED <<locator_vars, document_vars>>

\* the content x
ContentX == [NoData EXCEPT !.cols = {"content"}, !.content = "x"]

NextGated ==
  \/ \E r \in Requests : Return(r)
  \/ \E r \in Requests : FinishCall(r)
  \/ /\ \A q \in Requests : pc[q] = "idle" /\ hpc[q] = "idle"
     /\ \E r \in Requests, limit \in SiteLimits, document_id \in {"d1", "d2"} :
          \E request_data \in GatedRequests, at \in CancelPoints :
            GatedAnalyze(r, limit, document_id, request_data, at)
  \/ \E r \in Requests :
       DismissSuggestion(r, "p1", "d1", <<<<"a">>, GrammarRule>>)
  \/ \E r \in Requests : StartUpdate(r, "p1", "d1", ContentX)
  \/ \E r \in Requests : CommitUpdate(r)

SpecGated == InitGate /\ [][NextGated]_vars

\* ============================================================ properties
\* a stored row whose window is open at time t
InOpenWindow(row, t) ==
  row.rate_limit_reset_at # None /\ t < row.rate_limit_reset_at

\* the step in which request r goes through the gate in one piece
GateStep(r) == pc[r] = "idle" /\ pc'[r] = "done"

Quiescent == \A r \in Requests : pc[r] \in {"idle", "done"}

CeilDiv(a, b) == (a + b - 1) \div b

\* C1: however concurrent calls for one profile interleave, the number of
\* calls admitted in a window never exceeds the limit the calls were made with
C1_AdmittedWithinLimit ==
  \A r \in Requests :
    (pc[r] = "done" /\ response[r].outcome = "returned")
      => admitted_in_window <= requests_per_hour[r]

\* C2: no counter update is lost: once no call is in flight the persisted
\* api_call_count is the number of calls admitted in the window
C2_NoLostUpdate ==
  Quiescent => profile_row.api_call_count = admitted_in_window

\* C3: one at a time, a call in an open window succeeds exactly when the
\* stored count is below its limit L, then raises the count by exactly 1 and
\* leaves rate_limit_reset_at alone; otherwise it fails with 429, current_usage
\* the stored count and limit L
C3_OpenWindowAdmit ==
  [][\A r \in Requests :
       (GateStep(r) /\ InOpenWindow(profile_row, now)) =>
         LET L == requests_per_hour'[r]
             res == response'[r] IN
         /\ res.outcome \in {"returned", "raised"}
         /\ (res.outcome = "returned") <=> (profile_row.api_call_count < L)
         /\ res.outcome = "returned" =>
              /\ profile_row'.api_call_count = profile_row.api_call_count + 1
              /\ profile_row'.rate_limit_reset_at = profile_row.rate_limit_reset_at
              /\ res.profile = profile_row'
         /\ res.outcome = "raised" =>
              /\ res.status_code = HTTP_429_TOO_MANY_REQUESTS
              /\ res.current_usage = profile_row.api_call_count
              /\ res.limit = L]_vars

\* the fifth call under limit 5 was admitted and the next one is rejected
\* with current_usage 5
C3_Witness ==
  \E r \in Requests :
    /\ response[r].outcome = "raised"
    /\ response[r].current_usage = 5
    /\ response[r].limit = 5
    /\ profile_row.api_call_count = 5
    /\ admitted_in_window = 5
    /\ InOpenWindow(profile_row, now)

\* C4: a call made with rate_limit_reset_at null or <= now is admitted, sets
\* api_call_count to 1 and rate_limit_reset_at to now + 1 hour, whatever the
\* prior count and the limit
C4_ExpiredWindowResets ==
  [][\A r \in Requests :
       (GateStep(r) /\ ~InOpenWindow(profile_row, now)) =>
         /\ response'[r].outcome = "returned"
         /\ profile_row' = [api_call_count |-> 1,
                            rate_limit_reset_at |-> now + Hour]
         /\ response'[r].profile = profile_row']_vars

\* a call with limit 1 has just reopened a window whose count had gone past 1
C4_Witness ==
  \E r \in Requests :
    /\ pc[r] = "done"
    /\ response[r].outcome = "returned"
    /\ response[r].at = now
    /\ requests_per_hour[r] = 1
    /\ profile_row = [api_call_count |-> 1, rate_limit_reset_at |-> now + Hour]
    /\ admitted_in_window = 1
    /\ Len(admit_log) >= 3

\* C5 as stated: with one limit L throughout, at most L calls are admitted
\* within any interval of one hour (here: the hour that ends now)
C5_SlidingWindow ==
  \A L \in Limits : limits_used = {L} => Len(admit_log) <= L

\* C5 amended: with one limit L throughout, at most L calls are admitted in
\* one window (from the call that sets rate_limit_reset_at until that time),
\* and fewer than 2L within less than an hour
C5_FixedWindow ==
  \A L \in Limits :
    limits_used = {L} =>
      /\ admitted_in_window <= L
      /\ Len(admit_log) <= 2 * L - 1

\* under limit 2 three calls were admitted within less than an hour
C5_Witness ==
  /\ limits_used = {2}
  /\ admitted_in_window = 2
  /\ Len(admit_log) = 3

\* C6: the retry delay of a rejection, in the body and in Retry-After, is the
\* ceiling of (rate_limit_reset_at - now) in whole seconds
C6_RetryAfterCeiling ==
  \A r \in Requests :
    response[r].outcome = "raised" =>
      LET left == response[r].profile.rate_limit_reset_at - response[r].at IN
      /\ response[r].reset_in_seconds = CeilDiv(left, TicksPerSecond)
      /\ response[r].retry_after = CeilDiv(left, TicksPerSecond)

\* C7: the limit belongs to the call and the counter to the profile: in an
\* open window a call with limit L is admitted exactly when fewer than L
\* calls, under whatever limits, were admitted in that window before
C7_SharedCounter ==
  [][\A r \in Requests :
       (GateStep(r) /\ InOpenWindow(profile_row, now)) =>
         ((response'[r].outcome = "returned")
            <=> (admitted_in_window < requests_per_hour'[r]))]_vars

\* a call with limit 2 is rejected after three calls admitted under limit 5
C7_Witness ==
  \E r \in Requests :
    /\ response[r].outcome = "raised"
    /\ requests_per_hour[r] = 2
    /\ response[r].current_usage = 3
    /\ admitted_in_window = 3
    /\ limits_used = {2, 5}

\* needle occurs in haystack at the 0-based index s
Occurs(haystack, needle, s) ==
  /\ s + Len(needle) <= Len(haystack)
  /\ \A k \in 1 .. Len(needle) : haystack[s + k] = needle[k]

\* C8: for a non-empty needle find_text_positions returns exactly the pairs
\* (s, s + len(needle)) at which the needle occurs, overlapping ones
\* included, in strictly ascending order of s
C8_AllOccurrences ==
  (lpc = "found" /\ original_text # <<>>) =>
    /\ \A i \in 1 .. Len(positions) :
         /\ Occurs(paragraph_text, original_text, positions[i][1])
         /\ positions[i][2] = positions[i][1] + Len(original_text)
    /\ \A s \in 0 .. Len(paragraph_text) :
         Occurs(paragraph_text, original_text, s) =>
           \E i \in 1 .. Len(positions) : positions[i][1] = s
    /\ \A i, j \in 1 .. Len(positions) :
         i < j => positions[i][1] < positions[j][1]

\* find_text_positions("aaa", "aa") has returned [(0,2),(1,3)]
C8_Witness ==
  /\ lpc = "found"
  /\ paragraph_text = <<"a", "a", "a">>
  /\ original_text = <<"a", "a">>
  /\ positions = << <<0, 2>>, <<1, 3>> >>

\* C9: find_text_positions returns the empty sequence when the needle is the
\* empty string and when the needle does not occur in the haystack
C9_EmptyOrAbsent ==
  (/\ lpc = "found"
   /\ \/ original_text = <<>>
      \/ \A s \in 0 .. Len(paragraph_text) :
           ~Occurs(paragraph_text, original_text, s))
    => positions = <<>>

\* the two spans overlap: neither ends at or before the start of the other
Overlap(p, u) == ~(p[2] <= u[1] \/ u[2] <= p[1])

\* the indices of the positions that overlap no used span
FreeIndices == {i \in 1 .. Len(positions) :
                  \A u \in used_positions : ~Overlap(positions[i], u)}

\* C10: select_best_position returns the first position in list order that
\* overlaps no used span, and None exactly when every position overlaps one
C10_FirstFree ==
  lpc = "selected" =>
    /\ (selected_position = NoPosition) <=> (FreeIndices = {})
    /\ FreeIndices # {} =>
         /\ \E i \in FreeIndices :
              /\ selected_position = positions[i]
              /\ \A j \in FreeIndices : i <= j
         /\ \A u \in used_positions : ~Overlap(selected_position, u)

\* used {(0,5)} and positions [(2,7),(5,10)] have given (5,10)
C10_Witness ==
  /\ lpc = "selected"
  /\ used_positions = { <<0, 5>> }
  /\ positions = << <<2, 7>>, <<5, 10>> >>
  /\ selected_position = <<5, 10>>

\* ---------------------------------------------- analyze: the response
\* request r called analyze and got its response model back
AnalyzeReturned(r) ==
  /\ call[r].op = "analyze"
  /\ result[r].outcome = "returned"

\* the paragraphs of a request with a character that is no whitespace
NonBlank(paragraphs) ==
  {i \in 1 .. Len(paragraphs) :
     \E j \in 1 .. Len(paragraphs[i].text_content) :
       paragraphs[i].text_content[j] \notin Whitespace}

\* what the provider call made for paragraph p of request r came to: the
\* calls are made in paragraph order
ReplyFor(r, p) ==
  LET k == Cardinality({i \in NonBlank(call[r].paragraphs) : i <= p})
      c == call[r].completions
  IN c[CHOOSE j \in 1 .. Len(c) : c[j].task = k].reply

SuggestionsOf(r) ==
  {result[r].suggestions[i] : i \in 1 .. Len(result[r].suggestions)}

\* C11: every suggestion analyze emits, whatever the provider returned (a
\* candidate with the empty original_text too), has
\* global_start < global_end and
\* global_end - global_start = length(original_text)
C11_SpanNotEmpty ==
  \A r \in Requests :
    AnalyzeReturned(r) =>
      \A s \in SuggestionsOf(r) :
        /\ s.global_start < s.global_end
        /\ s.global_end - s.global_start = Len(s.original_text)

\* C12: a suggestion emitted for a paragraph with base offset b has
\* global_start = b + s and global_end = b + e for a span (s, e) inside that
\* paragraph whose text is exactly the suggestion's original_text; "Its"
\* in "Its going to rain." at base offset 100 gives 100 and 103
C12_GlobalOffsets ==
  \A r \in Requests :
    AnalyzeReturned(r) =>
      /\ \A s \in SuggestionsOf(r) :
           LET paragraph == call[r].paragraphs[s.paragraph]
               rs == s.global_start - paragraph.base_offset
               re == s.global_end - paragraph.base_offset
           IN /\ 0 <= rs
              /\ rs <= re
              /\ re <= Len(paragraph.text_content)
              /\ SubSeq(paragraph.text_content, rs + 1, re) = s.original_text
      /\ (/\ call[r].paragraphs = ExampleParagraphs
          /\ call[r].completions = ExampleCompletions)
         => /\ Len(result[r].suggestions) = 1
            /\ result[r].suggestions[1].global_start = 100
            /\ result[r].suggestions[1].global_end = 103

\* the example was analyzed, and a suggestion was emitted for a paragraph
\* that does not begin the document
C12_Witness ==
  \E r \in Requests :
    /\ AnalyzeReturned(r)
    /\ \/ /\ call[r].paragraphs = ExampleParagraphs
          /\ Len(result[r].suggestions) = 1
       \/ \E s \in SuggestionsOf(r) :
            /\ call[r].paragraphs[s.paragraph].base_offset > 0
            /\ s.global_start < s.global_end

\* a suggestion without its id and the rank of its candidate
View(s) ==
  [rule_id |-> s.rule_id, original_text |-> s.original_text,
   global_start |-> s.global_start, global_end |-> s.global_end,
   paragraph |-> s.paragraph]

\* the suggestions of a response that come from the paragraphs in P
ViewsOf(suggestions, P) ==
  LET FromP(s) == s.paragraph \in P
      kept == SelectSeq(suggestions, FromP)
  IN [i \in 1 .. Len(kept) |-> View(kept[i])]

\* the errors entries of request r that name paragraph p
ErrorsOf(r, p) ==
  {i \in 1 .. Len(result[r].errors) :
     result[r].errors[i].paragraph_id = call[r].paragraphs[p].paragraph_id}

\* the completions with each reply replaced by Change(reply)
WithReplies(completions, Change(_)) ==
  [j \in 1 .. Len(completions) |->
     [task |-> completions[j].task, reply |-> Change(completions[j].reply)]]

\* the response request r would get for other completions
Reanalyzed(r, completions) ==
  analyze_paragraphs(call[r].profile_id, call[r].document_id,
                     call[r].paragraphs, completions, dismissed_suggestions)

\* C16: a paragraph whose provider call raises or times out contributes no
\* suggestion and exactly one entry to errors, and the suggestions of the
\* other paragraphs are those of the same request with that call answering
\* the empty list
C16_FailedCallReported ==
  \A r \in Requests :
    AnalyzeReturned(r) =>
      \A p \in NonBlank(call[r].paragraphs) :
        ReplyFor(r, p).kind = "raise" =>
          LET Healed(reply) ==
                IF reply.kind = "raise" THEN Reply("json_list", <<>>)
                ELSE reply
              others == (1 .. Len(call[r].paragraphs)) \ {p}
          IN /\ ViewsOf(result[r].suggestions, {p}) = <<>>
             /\ Cardinality(ErrorsOf(r, p)) = 1
             /\ ViewsOf(result[r].suggestions, others) =
                  ViewsOf(Reanalyzed(r, WithReplies(call[r].completions,
                                                    Healed)).suggestions,
                          others)

Complete(reply) ==
  LET HasAll(item) == MissingFields(item) = {} IN
  [reply EXCEPT !.items = SelectSeq(@, HasAll)]

\* C18: a candidate lacking a required field adds exactly one entry to
\* errors, emits no suggestion and reserves no span (the suggestions are
\* those of the same request without such candidates); a candidate dropped
\* because it is not found, conflicts or is dismissed adds no entry
C18_MissingFieldsOnly ==
  \A r \in Requests :
    AnalyzeReturned(r) =>
      /\ \A p \in NonBlank(call[r].paragraphs) :
           LET items == ReplyFor(r, p).items IN
           ReplyFor(r, p).kind \in {"json_list", "json_object"} =>
             /\ Cardinality(ErrorsOf(r, p)) =
                  Cardinality({c \in 1 .. Len(items) :
                                 MissingFields(items[c]) # {}})
             /\ \A s \in SuggestionsOf(r) :
                  s.paragraph = p => MissingFields(items[s.candidate]) = {}
      /\ ViewsOf(result[r].suggestions, 1 .. Len(call[r].paragraphs)) =
           ViewsOf(Reanalyzed(r, WithReplies(call[r].completions,
                                             Complete)).suggestions,
                   1 .. Len(call[r].paragraphs))

\* one reply holds a candidate without its message, then the dismissed "a"
\* and then "ab", which conflicts with the span "a" reserved: one entry in
\* errors and no suggestion
C18_Witness ==
  \E r \in Requests :
    /\ AnalyzeReturned(r)
    /\ Len(result[r].errors) = 1
    /\ result[r].suggestions = <<>>
    /\ \E p \in NonBlank(call[r].paragraphs) :
         LET items == ReplyFor(r, p).items IN
         /\ Len(items) = 3
         /\ MissingFields(items[1]) # {}
         /\ items[2] = SuggestionObject(<<"a">>, GrammarRule)
         /\ items[3] = SuggestionObject(<<"a", "b">>, GrammarRule)
         /\ create_dismissal_identifier(<<"a">>, GrammarRule) \in
              get_dismissed_suggestions(dismissed_suggestions,
                                        call[r].profile_id,
                                        call[r].document_id)

\* suggestion s comes before suggestion t in paragraph order, then in the
\* order of the provider's list
Before(s, t) ==
  \/ s.paragraph < t.paragraph
  \/ s.paragraph = t.paragraph /\ s.candidate < t.candidate

\* the completions of a request in the order the calls were made
InTaskOrder(completions) ==
  [k \in 1 .. Len(completions) |->
     completions[CHOOSE j \in 1 .. Len(completions) :
                   completions[j].task = k]]

\* C19: suggestions are in paragraph order of the request and, within a
\* paragraph, in the order of the provider's list, each the candidate at
\* its rank in the reply to its paragraph's call; the response is the one
\* got when the calls complete in the order they were made
C19_ParagraphThenProviderOrder ==
  \A r \in Requests :
    AnalyzeReturned(r) =>
      /\ \A i, j \in 1 .. Len(result[r].suggestions) :
           i < j => Before(result[r].suggestions[i], result[r].suggestions[j])
      /\ \A s \in SuggestionsOf(r) :
           /\ s.paragraph \in NonBlank(call[r].paragraphs)
           /\ s.candidate \in 1 .. Len(ReplyFor(r, s.paragraph).items)
           /\ ReplyFor(r, s.paragraph).items[s.candidate].original_text =
                s.original_text
           /\ ReplyFor(r, s.paragraph).items[s.candidate].rule_id = s.rule_id
      /\ result[r] = Reanalyzed(r, InTaskOrder(call[r].completions))

\* the call of the second paragraph completed first, and both paragraphs
\* have a suggestion, the first with two
C19_Witness ==
  \E r \in Requests :
    /\ AnalyzeReturned(r)
    /\ Len(call[r].completions) = 2
    /\ call[r].completions[1].task = 2
    /\ Len(result[r].suggestions) = 3
    /\ result[r].suggestions[1].paragraph = result[r].suggestions[2].paragraph
    /\ result[r].suggestions[3].paragraph > result[r].suggestions[2].paragraph

\* the response to a request of the one paragraph p of request r, its
\* provider call coming to reply
Alone(r, p, reply) ==
  analyze_paragraphs(call[r].profile_id, call[r].document_id,
                     <<call[r].paragraphs[p]>>,
                     <<[task |-> 1, reply |-> reply]>>,
                     dismissed_suggestions)

\* C20: one provider call is made for each paragraph whose trimmed text is
\* not empty and none for the others; total_paragraphs_processed counts the
\* former; a blank paragraph gives no suggestion and no errors entry; the
\* suggestions and errors of a paragraph are those its own text and
\* base_offset give with the reply to its own call
C20_OneCallPerNonBlank ==
  \A r \in Requests :
    AnalyzeReturned(r) =>
      LET paragraphs == call[r].paragraphs
          calls == result[r].dispatched
      IN
      /\ {calls[k] : k \in 1 .. Len(calls)} = NonBlank(paragraphs)
      /\ Len(calls) = Cardinality(NonBlank(paragraphs))
      /\ result[r].total_paragraphs_processed =
           Cardinality(NonBlank(paragraphs))
      /\ \A p \in (1 .. Len(paragraphs)) \ NonBlank(paragraphs) :
           /\ ViewsOf(result[r].suggestions, {p}) = <<>>
           /\ ErrorsOf(r, p) = {}
      /\ \A p \in NonBlank(paragraphs) :
           LET alone == Alone(r, p, ReplyFor(r, p))
               Here(s) == [View(s) EXCEPT !.paragraph = p]
           IN /\ ViewsOf(result[r].suggestions, {p}) =
                   [i \in 1 .. Len(alone.suggestions) |->
                      Here(alone.suggestions[i])]
              /\ Cardinality(ErrorsOf(r, p)) = Len(alone.errors)

\* a blank paragraph lies between two paragraphs with text, and the last
\* one has a suggestion
C20_Witness ==
  \E r \in Requests :
    /\ AnalyzeReturned(r)
    /\ Len(call[r].paragraphs) = 3
    /\ NonBlank(call[r].paragraphs) = {1, 3}
    /\ result[r].total_paragraphs_processed = 2
    /\ \E s \in SuggestionsOf(r) : s.paragraph = 3

\* ------------------------------------------------------- the dismissals
\* the history of the document request r names
HistoryOf(r) ==
  dismissed_pairs[CHOOSE d \in DocumentTable :
                    /\ d.id = call[r].document_id
                    /\ d.profile_id = call[r].profile_id]

\* C13: once a profile has dismissed (original_text, rule_id) for a
\* document, an analyze call by it on that document emits no candidate
\* with that pair, in whichever paragraph, until the pair is cleared: the
\* suggestions are those the request gets with nothing dismissed, less the
\* ones whose identifier was dismissed since the last clear, so that after
\* a clear every candidate is emitted again
C13_DismissedOmitted ==
  \A r \in Requests :
    AnalyzeReturned(r) =>
      LET active == HistoryOf(r).active
          identifiers ==
            {create_dismissal_identifier(pair[1], pair[2]) : pair \in active}
          NotDismissed(s) == s.dismissal_identifier \notin identifiers
          everywhere == 1 .. Len(call[r].paragraphs)
          undismissed ==
            analyze_paragraphs(call[r].profile_id, call[r].document_id,
                               call[r].paragraphs, call[r].completions,
                               EmptyBag).suggestions
      IN /\ \A s \in SuggestionsOf(r) :
              <<s.original_text, s.rule_id>> \notin active
         /\ ViewsOf(result[r].suggestions, everywhere) =
              ViewsOf(SelectSeq(undismissed, NotDismissed), everywhere)

\* "a" of the grammar rule is dismissed and the provider returns it for
\* the second paragraph, where it is omitted; "a" of the spelling rule was
\* dismissed, then cleared, and is emitted
C13_Witness ==
  \E r \in Requests :
    /\ AnalyzeReturned(r)
    /\ << <<"a">>, GrammarRule >> \in HistoryOf(r).active
    /\ << <<"a">>, SpellingRule >> \in HistoryOf(r).cleared
    /\ \E c \in 1 .. Len(ReplyFor(r, 2).items) :
         ReplyFor(r, 2).items[c] = SuggestionObject(<<"a">>, GrammarRule)
    /\ \E s \in SuggestionsOf(r) : s.rule_id = SpellingRule
    /\ \A s \in SuggestionsOf(r) : s.rule_id # GrammarRule

\* request r called dismiss or clear on a document of its own and has its
\* answer
Answered(r, op) ==
  /\ call[r].op = op
  /\ hpc[r] = "done"
  /\ document_of(call[r].profile_id, call[r].document_id) # {}

\* C14: dismiss calls with the same profile, document, original_text and
\* rule_id, one after another or interleaved, all return success with the
\* same dismissal_identifier, none raises, and the registry then holds
\* exactly one row of the triple (until a clear removes it)
C14_DismissIdempotent ==
  /\ \A r \in Requests :
       Answered(r, "dismiss") =>
         /\ result[r].outcome = "returned"
         /\ result[r].success
         /\ result[r].dismissal_identifier =
              call[r].original_text \o <<"|">> \o call[r].rule_id
         /\ result[r].intact =>
              CopiesIn(DismissalRow(call[r].profile_id, call[r].document_id,
                                    result[r].dismissal_identifier),
                       dismissed_suggestions) = 1
  /\ \A r, q \in Requests :
       (/\ Answered(r, "dismiss")
        /\ Answered(q, "dismiss")
        /\ call[r] = call[q])
       => result[r].dismissal_identifier = result[q].dismissal_identifier

\* two requests made the same dismiss call, both are answered and the row
\* is there
C14_Witness ==
  \E r, q \in Requests :
    /\ r # q
    /\ Answered(r, "dismiss")
    /\ Answered(q, "dismiss")
    /\ call[r] = call[q]
    /\ result[r].intact
    /\ result[q].intact

\* C15: clear removes every row of the pair and returns a cleared_count
\* equal to the number of rows it removed, also when a dismiss for the
\* pair commits while the clear is running; zero is a normal success
C15_ClearedCountIsRemoved ==
  \A r \in Requests :
    Answered(r, "clear") =>
      /\ result[r].outcome = "returned"
      /\ result[r].success
      /\ result[r].cleared_count = result[r].removed

\* ------------------------------------------- analyze: the request checks
\* request r called analyze and the handler has ended
AnalyzeEnded(r) ==
  /\ call[r].op = "analyze"
  /\ hpc[r] = "done"

\* the handler of request r raised an HTTPException with this status
Rejected(r, status_code) ==
  /\ result[r].outcome = "raised"
  /\ result[r].status_code = status_code

\* nothing of the pipeline ran for request r
NothingProcessed(r) ==
  /\ result[r].dispatched = <<>>
  /\ ~result[r].dismissals_read
  /\ result[r].suggestions = <<>>
  /\ result[r].errors = <<>>
  /\ result[r].total_paragraphs_processed = None

\* C21: analyze answers 400 exactly when the request has more than 10
\* paragraphs or a paragraph text of more than 2000 characters; a request
\* so rejected makes no provider call, reads no dismissals and returns no
\* suggestions
C21_CapsRejectWhole ==
  \A r \in Requests :
    AnalyzeEnded(r) =>
      LET over ==
            \/ Len(call[r].paragraphs) > 10
            \/ \E i \in 1 .. Len(call[r].paragraphs) :
                 Len(call[r].paragraphs[i].text_content) > 2000
      IN /\ Rejected(r, 400) <=> over
         /\ over => NothingProcessed(r)

\* ten paragraphs, one of 2001 characters: rejected
C21_Witness ==
  \E r \in Requests :
    /\ AnalyzeEnded(r)
    /\ Len(call[r].paragraphs) = 10
    /\ Len(call[r].paragraphs[1].text_content) = 2001
    /\ Rejected(r, 400)

\* --------------------------------------------------- documents of others
\* the document request r names is not one of the caller's: it does not
\* exist or belongs to another profile
NotOwn(c) ==
  ~\E d \in DocumentTable : d.id = c.document_id /\ d.profile_id = c.profile_id

\* C22: analyze, dismiss and clear answer a request naming a document that
\* does not exist and one naming a document of another profile with the same
\* 404 and nothing else, create and delete no dismissal record and make no
\* provider call, so that the documents of others cannot be told from no
\* documents
C22_ForeignIsNotFound ==
  [][\A r \in Requests :
       (/\ hpc[r] = "idle"
        /\ hpc'[r] = "done"
        /\ NotOwn(call'[r]))
       => /\ result'[r] = [NoResult EXCEPT !.outcome = "raised",
                                           !.status_code = 404]
          /\ dismissed_suggestions' = dismissed_suggestions]_vars

\* p1 asked to clear the document of p2, which has a dismissal, and got 404
C22_Witness ==
  \E r \in Requests :
    /\ hpc[r] = "done"
    /\ call[r].op = "clear"
    /\ call[r].profile_id = "p1"
    /\ call[r].document_id = "d2"
    /\ result[r].status_code = 404
    /\ \E row \in BagToSet(dismissed_suggestions) : row.document_id = "d2"

\* ------------------------------------------ analyze: the spans of a paragraph
\* the least element of a set of numbers
Least(S) == CHOOSE s \in S : \A t \in S : s <= t

\* the spans first-fit placement gives the first c elements of a provider
\* list in a paragraph text, NoPosition for an element that gets none: the
\* earliest occurrence overlapping no span given before
RECURSIVE FirstFit(_, _, _)
FirstFit(text, items, c) ==
  IF c = 0 THEN <<>>
  ELSE
    LET before == FirstFit(text, items, c - 1)
        given == {before[i] : i \in 1 .. c - 1} \ {NoPosition}
        wanted == items[c].original_text
        free == {s \in 0 .. Len(text) :
                   /\ Occurs(text, wanted, s)
                   /\ \A u \in given : ~Overlap(<<s, s + Len(wanted)>>, u)}
    IN Append(before,
              IF MissingFields(items[c]) # {} \/ free = {} THEN NoPosition
              ELSE <<Least(free), Least(free) + Len(wanted)>>)

\* the span of a suggestion within its paragraph
RelativeSpan(r, s) ==
  <<s.global_start - call[r].paragraphs[s.paragraph].base_offset,
    s.global_end - call[r].paragraphs[s.paragraph].base_offset>>

\* C23: in each paragraph the candidates are placed in provider order, each
\* on the earliest occurrence of its original_text overlapping no span
\* given to an earlier candidate of the paragraph, or dropped when there is
\* none; the suggestions are the placed candidates that are not dismissed,
\* their spans in one paragraph do not overlap, and spans of another
\* paragraph play no part
C23_FirstFitPerParagraph ==
  \A r \in Requests :
    AnalyzeReturned(r) =>
      \A p \in NonBlank(call[r].paragraphs) :
        LET items == analyze_paragraph_with_llm(ReplyFor(r, p)).items
            spans == FirstFit(call[r].paragraphs[p].text_content, items,
                              Len(items))
            here == {s \in SuggestionsOf(r) : s.paragraph = p}
        IN /\ \A s \in here : RelativeSpan(r, s) = spans[s.candidate]
           /\ \A c \in 1 .. Len(items) :
                (/\ spans[c] # NoPosition
                 /\ <<items[c].original_text, items[c].rule_id>> \notin
                      HistoryOf(r).active)
                => \E s \in here : s.candidate = c
           /\ \A s, t \in here :
                s # t => ~Overlap(RelativeSpan(r, s), RelativeSpan(r, t))

\* two paragraphs "aba": the provider returned "a" twice for the first and
\* once for the second; the first has suggestions at 0 and 2, the second
\* one at 0 of its own
C23_Witness ==
  \E r \in Requests :
    /\ AnalyzeReturned(r)
    /\ NonBlank(call[r].paragraphs) = {1, 2}
    /\ Len(ReplyFor(r, 1).items) = 2
    /\ Len(ReplyFor(r, 2).items) = 1
    /\ Len(result[r].suggestions) = 3
    /\ RelativeSpan(r, result[r].suggestions[1]) = <<0, 1>>
    /\ RelativeSpan(r, result[r].suggestions[2]) = <<2, 3>>
    /\ RelativeSpan(r, result[r].suggestions[3]) = <<0, 1>>

\* ------------------------------------------------ the dismissal identifier
\* C24: a dismissal suppresses exactly the candidates with the same
\* original_text and the same rule_id, also when a text or a rule id holds
\* a "|": a candidate the provider returns is left out of the response if
\* and only if its own pair was dismissed for the document since the last
\* clear
C24_ExactPairSuppressed ==
  \A r \in Requests :
    (/\ AnalyzeReturned(r)
     /\ call[r].paragraphs = Paragraphs(<<PipeText>>))
    => LET item == ReplyFor(r, 1).items[1] IN
       (result[r].suggestions = <<>>)
         <=> (<<item.original_text, item.rule_id>> \in HistoryOf(r).active)

\* ------------------------------------------------------ a rejected admit
\* C27: a call of check_rate_limit that fails with 429 changes nothing: the
\* committed api_call_count and rate_limit_reset_at are what they were
\* before the call, and the Profile object of the request is the row as it
\* was loaded, so a rejected call neither raises the count nor moves the
\* end of the window
C27_RejectedChangesNothing ==
  [][\A r \in Requests :
       (/\ pc[r] = "idle"
        /\ pc'[r] = "done"
        /\ response'[r].outcome = "raised")
       => /\ response'[r].status_code = 429
          /\ profile_row' = profile_row
          /\ current_profile'[r] = profile_row
          /\ admitted_in_window' = admitted_in_window]_vars

\* a call was rejected at the limit inside the window, and the row still
\* holds the count and the end of the window the call saw
C27_Witness ==
  \E r \in Requests :
    /\ pc[r] = "done"
    /\ response[r].outcome = "raised"
    /\ response[r].current_usage = requests_per_hour[r]
    /\ profile_row.api_call_count = requests_per_hour[r]
    /\ profile_row.rate_limit_reset_at > now
    /\ current_profile[r] = profile_row

\* ------------------------------------------------------ the version history
\* a request commits the update or the restore it started
Commits(r) == hpc[r] \in {"updating", "restoring"} /\ hpc'[r] = "done"

\* C26: the version history only grows, and every update or restore that
\* commits on a document whose content is not null adds exactly one version
\* holding the content the document had just before that commit; after a
\* restore the content of the document is that of the version restored
C26_ArchivedBeforeChange ==
  [][/\ Len(document_versions') >= Len(document_versions)
     /\ SubSeq(document_versions', 1, Len(document_versions))
          = document_versions
     /\ \A r \in Requests :
          Commits(r)
          => LET document_id == call[r].document_id
                 before == documents[document_id].content
             IN /\ before # NoContent
                   => document_versions' =
                        Append(document_versions,
                               [document_id |-> document_id,
                                content |-> before])
                /\ hpc[r] = "restoring"
                   => documents'[document_id].content =
                        document_versions[call[r].version_id].content]_vars

\* -------------------------------------------------- analyze behind the gate
\* request r goes through POST /suggestions/analyze in this step
Analyzes(r) ==
  hpc[r] = "idle" /\ hpc'[r] = "done" /\ call'[r].op = "analyze"

\* the row after the write of an admitted call: one call more in the
\* window, or a new window with this call in it
Counted(row, current_time) ==
  {[row EXCEPT !.api_call_count = @ + 1],
   [api_call_count |-> 1, rate_limit_reset_at |-> current_time + Hour]}

\* C25: an analyze request, whether it returns, is rejected or is
\* cancelled, leaves the dismissal records, the documents and the versions
\* as they were; the profiles row is all it may change, and only by the
\* write of the gate
C25_AnalyzePersistsNothing ==
  [][\A r \in Requests :
       Analyzes(r)
       => /\ dismissed_suggestions' = dismissed_suggestions
          /\ documents' = documents
          /\ document_versions' = document_versions
          /\ profile_row' \in {profile_row} \cup Counted(profile_row, now)]_vars

\* an analysis was cancelled while the provider calls were awaited, with a
\* dismissal and a version stored and the call counted
C25_Witness ==
  \E r \in Requests :
    /\ hpc[r] = "done"
    /\ call[r].op = "analyze"
    /\ result[r].outcome = "cancelled"
    /\ result[r].dispatched # <<>>
    /\ dismissed_suggestions # EmptyBag
    /\ document_versions # <<>>
    /\ response[r].outcome = "returned"

\* C28: the rate limit comes first: an analyze request answered with 400
\* or 404 was admitted by the gate and is counted in the profiles row (one
\* call more, or a new window opened), and a request the gate rejects is
\* answered with 429 whatever its paragraphs and its document are, without
\* a read of the dismissals and without a provider call
C28_GateFirst ==
  [][\A r \in Requests :
       Analyzes(r)
       => /\ result'[r].status_code \in {400, 404}
             => /\ response'[r].outcome = "returned"
                /\ profile_row' \in Counted(profile_row, now)
          /\ response'[r].outcome = "raised"
             => /\ result'[r].outcome = "raised"
                /\ result'[r].status_code = 429
                /\ ~result'[r].dismissals_read
                /\ result'[r].dispatched = <<>>]_vars

\* a request for a document of another profile was answered with 404 and
\* is the second call counted in the window
C28_Witness ==
  \E r \in Requests :
    /\ hpc[r] = "done"
    /\ call[r].op = "analyze"
    /\ result[r].status_code = 404
    /\ response[r].outcome = "returned"
    /\ profile_row.api_call_count = 2
    /\ admitted_in_window = 2

\* ------------------------------------------- analyze: a suppressed candidate
\* candidate c of the list items was placed on a span and is suppressed by
\* a dismissal of the document of request r
Suppressed(r, items, spans, c) ==
  /\ MissingFields(items[c]) = {}
  /\ spans[c] # NoPosition
  /\ <<items[c].original_text, items[c].rule_id>> \in HistoryOf(r).active

\* C29: a candidate suppressed by a dismissal keeps the span selected for
\* it: no suggestion is emitted for it, and no suggestion of a later
\* candidate of the same paragraph overlaps that span
C29_SuppressedReservesSpan ==
  \A r \in Requests :
    AnalyzeReturned(r) =>
      \A p \in NonBlank(call[r].paragraphs) :
        LET items == analyze_paragraph_with_llm(ReplyFor(r, p)).items
            spans == FirstFit(call[r].paragraphs[p].text_content, items,
                              Len(items))
            here == {s \in SuggestionsOf(r) : s.paragraph = p}
        IN \A c \in 1 .. Len(items) :
             Suppressed(r, items, spans, c)
             => /\ \A s \in here : s.candidate # c
                /\ \A s \in here :
                     s.candidate > c
                     => ~Overlap(RelativeSpan(r, s), spans[c])

\* in "aba" the first candidate "a" is dismissed and the second, "a" of
\* another rule, is suggested at 2, not at 0
C29_Witness ==
  \E r \in Requests :
    /\ AnalyzeReturned(r)
    /\ NonBlank(call[r].paragraphs) = {1}
    /\ call[r].paragraphs[1].text_content = Aba
    /\ LET items == analyze_paragraph_with_llm(ReplyFor(r, 1)).items IN
       /\ Len(items) = 2
       /\ MissingFields(items[1]) = {} /\ MissingFields(items[2]) = {}
       /\ items[1].original_text = <<"a">>
       /\ items[2].original_text = <<"a">>
       /\ <<items[1].original_text, items[1].rule_id>> \in HistoryOf(r).active
       /\ Len(result[r].suggestions) = 1
       /\ result[r].suggestions[1].candidate = 2
       /\ RelativeSpan(r, result[r].suggestions[1]) = <<2, 3>>

\* --------------------------------------------- the scope of a dismissal
\* the rows of the table that are not of the profile and the document
RowsOutside(table, profile_id, document_id) ==
  [t \in BagToSet(table) \ RowsOf(table, profile_id, document_id) |->
     table[t]]

\* the rows of the table that are of the profile and the document
RowsInside(table, profile_id, document_id) ==
  [t \in RowsOf(table, profile_id, document_id) |-> table[t]]

\* request r is served in this step
Served(r) == hpc[r] = "idle" /\ hpc'[r] = "done"

\* C30: a dismiss or a clear by p for d leaves the rows of every other
\* profile and of every other document as they are, and the response of an
\* analysis by p on d is the one it gets from the rows of (p, d) alone
C30_ScopedToPair ==
  [][\A r \in Requests :
       Served(r)
       => LET c == call'[r] IN
          /\ c.op \in {"dismiss", "clear"}
             => RowsOutside(dismissed_suggestions', c.profile_id,
                            c.document_id)
                  = RowsOutside(dismissed_suggestions, c.profile_id,
                                c.document_id)
          /\ c.op = "analyze"
             => result'[r] =
                  analyze_paragraphs(
                    c.profile_id, c.document_id, c.paragraphs, c.completions,
                    RowsInside(dismissed_suggestions, c.profile_id,
                               c.document_id))]_vars

\* p1 has dismissed "a" of the grammar rule for d3, and so has p2 for d2;
\* the analysis of d1 by p1 suggests it
C30_Witness ==
  \E r \in Requests :
    /\ AnalyzeReturned(r)
    /\ call[r].profile_id = "p1"
    /\ call[r].document_id = "d1"
    /\ Len(result[r].suggestions) = 1
    /\ LET id == result[r].suggestions[1].dismissal_identifier IN
       /\ BagIn(DismissalRow("p1", "d3", id), dismissed_suggestions)
       /\ BagIn(DismissalRow("p2", "d2", id), dismissed_suggestions)
       /\ ~BagIn(DismissalRow("p1", "d1", id), dismissed_suggestions)

====
